---------------------------- MODULE Spec2Model ----------------------------
(***************************************************************************)
(* Model of the landmark geometric analysis engine of face-aesthetic-app   *)
(* (backend/app/core/facial_analyzer.py, ModernFacialBeautyAnalyzer) and   *)
(* of the result models it is validated against                            *)
(* (backend/app/models/analysis.py).                                       *)
(*                                                                         *)
(* Numbers.  The code computes in floating point; the model computes the   *)
(* same quantities exactly:                                                *)
(*   - a normalized coordinate is k / Grid for an integer k in 0..Grid;    *)
(*   - a pixel distance sqrt(n) is kept as its square n;                   *)
(*   - a comparison of two such reals is decided on their squares by       *)
(*     CmpFrac, which compares two fractions without multiplying them out; *)
(*   - the beauty-standard ratios 1.618, 1.414, 1.46 and the proportion    *)
(*     tiers 0.15, 0.25, 0.35 are in thousandths; the E-line bounds 2.0    *)
(*     and 7.0 are in units; the floats of the fixed records and the       *)
(*     scores are in thousandths;                                          *)
(*   - round(x, n) is RoundHalfEven on the exact value.                    *)
(* Floating-point rounding error of the individual operations is not       *)
(* modelled.                                                               *)
(***************************************************************************)
EXTENDS Integers, Sequences, FiniteSets, TLC

VARIABLES
    landmark_set,      \* the landmark list handed to the analysis: index -> <<x, y>>
    total_landmarks,   \* len(landmarks): the indices below it can be read
    image_shape,       \* <<h, w>>
    pc,                \* position inside _perform_comprehensive_analysis
    analysis_results,  \* the sub-analysis records computed so far, by name
    overall_score,     \* the record of _calculate_overall_score
    beauty_advice,     \* the list of _generate_beauty_advice
    outcome,           \* what the call gave its caller: a result or an AnalysisError
    analyzer,          \* the tables of the shared ModernFacialBeautyAnalyzer instance
    calls,             \* the invocations of analyze_image_async: number -> its state
    frames,            \* the local variables of _perform_comprehensive_analysis, by frame
    temp_files,        \* the temporary files that exist
    data,              \* the dict handed to the two _extract_score copies
    extracted,         \* what each copy returned for it, <<>> before it has
    module_globals,    \* the module-level service instances, None before the first call
    constructed,       \* how many service objects have been constructed
    returns,           \* what the accessor calls returned, in order
    webhook,           \* the webhook request in progress and its HTTP response
    handled,           \* the events whose handler was entered, in order
    request,           \* the upload request in progress and its HTTP response
    analysis_results_table,  \* the rows of public.analysis_results
    insert_attempts,   \* the inserts into analysis_results that were tried, in order
    chat,              \* the chat operation in progress
    chat_messages,     \* the rows of public.chat_messages, by created_at
    ai_requests        \* the conversation histories handed to the language model

\* The state of the invocations of analyze_image_async.
service_vars == <<analyzer, calls, frames, temp_files>>

\* The state of the score extraction of the LINE bot and the report generator.
extract_vars == <<data, extracted>>

\* The state of the service accessors.
singleton_vars == <<module_globals, constructed, returns>>

\* The state of the LINE webhook endpoint.
webhook_vars == <<webhook, handled>>

\* The state of the upload endpoint and of AnalysisService.
upload_vars == <<request, analysis_results_table, insert_attempts>>

\* The state of BeautyChatbotService.
chat_vars == <<chat, chat_messages, ai_requests>>

app_vars == <<singleton_vars, webhook_vars, upload_vars, chat_vars>>

vars == <<landmark_set, total_landmarks, image_shape, pc, analysis_results, overall_score,
          beauty_advice, outcome, service_vars, extract_vars, app_vars>>

\* No operation of a kind is in progress and nothing was stored.
Idle == [pc |-> "idle"]

None == [is_none |-> TRUE]

SingletonIdle ==
    /\ module_globals = [linebot_service_instance |-> None,
                         analysis_service_instance |-> None,
                         chatbot_service_instance |-> None,
                         storage_service_instance |-> None,
                         analyzer_instance |-> None]
    /\ constructed = 0
    /\ returns = <<>>

WebhookIdle == webhook = Idle /\ handled = <<>>

UploadIdle == request = Idle /\ analysis_results_table = <<>> /\ insert_attempts = <<>>

ChatIdle == chat = Idle /\ chat_messages = <<>> /\ ai_requests = <<>>

AppIdle == SingletonIdle /\ WebhookIdle /\ UploadIdle /\ ChatIdle

---------------------------------------------------------------------------
(* Bounds of the model *)

\* Normalized coordinates are the multiples of 1/Grid in [0, 1].
Grid == 10

\* datetime.now() at result creation is one of 0..MaxClock.
MaxClock == 1

---------------------------------------------------------------------------
(* self.beauty_standards and the literals of the ladders *)

golden_ratio == 1618
silver_ratio == 1414
japanese_face_ratio == 1460
eline_tolerance == 2

\* The literal bounds of the E-line ladder (2.0 and 7.0).
eline_ideal_max == 2
eline_standard_max == 7

\* The literal bounds of the proportion tiers (0.15, 0.25, 0.35), in thousandths.
proportions_excellent_below == 150
proportions_good_below == 250
proportions_standard_below == 350

\* self.landmarks: the named MediaPipe Face Mesh indices.
landmarks_with_index_past_the_mesh ==
    [nose_tip |-> 1, chin_tip |-> 152, forehead_center |-> 10, nose_bottom |-> 2,
     left_eye_outer |-> 33, right_eye_outer |-> 263, left_eye_inner |-> 133,
     right_eye_inner |-> 362, left_eye_center |-> 468, right_eye_center |-> 478,
     mouth_left |-> 61, mouth_right |-> 291, upper_lip_center |-> 13,
     lower_lip_center |-> 14, upper_lip_top |-> 0, lower_lip_bottom |-> 17,
     left_cheek |-> 234, right_cheek |-> 454, left_jaw |-> 172, right_jaw |-> 397,
     left_eyebrow_outer |-> 70, right_eyebrow_outer |-> 300,
     left_eyebrow_inner |-> 107, right_eyebrow_inner |-> 336, nose_left |-> 131,
     nose_right |-> 360, nasal_bridge_top |-> 6, nasal_bridge_mid |-> 168]
landmarks ==
    [nose_tip |-> 1, chin_tip |-> 152, forehead_center |-> 10, nose_bottom |-> 2,
     left_eye_outer |-> 33, right_eye_outer |-> 263, left_eye_inner |-> 133,
     right_eye_inner |-> 362, left_eye_center |-> 468, right_eye_center |-> 473,
     mouth_left |-> 61, mouth_right |-> 291, upper_lip_center |-> 13,
     lower_lip_center |-> 14, upper_lip_top |-> 0, lower_lip_bottom |-> 17,
     left_cheek |-> 234, right_cheek |-> 454, left_jaw |-> 172, right_jaw |-> 397,
     left_eyebrow_outer |-> 70, right_eyebrow_outer |-> 300,
     left_eyebrow_inner |-> 107, right_eyebrow_inner |-> 336, nose_left |-> 131,
     nose_right |-> 360, nasal_bridge_top |-> 6, nasal_bridge_mid |-> 168]

\* self.jawline_landmarks
jawline_landmarks ==
    <<172, 136, 150, 149, 176, 148, 152, 377, 400, 378, 379, 365, 397, 288, 361, 323>>

\* ModernFacialBeautyAnalyzer(): the tables __init__ sets on the instance.
AnalyzerInstance ==
    [beauty_standards |->
        [golden_ratio |-> golden_ratio, silver_ratio |-> silver_ratio,
         japanese_face_ratio |-> japanese_face_ratio,
         nasolabial_angle_min |-> 100, nasolabial_angle_max |-> 110,
         philtrum_chin_ratio_ideal |-> 2000, philtrum_chin_ratio_modern |-> 3000,
         eline_tolerance |-> eline_tolerance, eye_width_ratio |-> 3000,
         facial_thirds |-> <<1, 1, 1>>, facial_fifths |-> <<1, 1, 1, 1, 1>>],
     landmarks |-> landmarks,
     jawline_landmarks |-> jawline_landmarks]

---------------------------------------------------------------------------
(* Exact arithmetic *)

Abs(n) == IF n < 0 THEN -n ELSE n

\* The sign of p/q - r/s for p, r >= 0 and q, s > 0, by the Euclidean
\* algorithm on the two fractions (no product of the four numbers is formed).
RECURSIVE CmpFrac(_, _, _, _)
CmpFrac(p, q, r, s) ==
    LET ip == p \div q
        ir == r \div s
        pr == p % q
        rr == r % s
    IN  IF ip # ir THEN (IF ip < ir THEN -1 ELSE 1)
        ELSE IF pr = 0 /\ rr = 0 THEN 0
        ELSE IF pr = 0 THEN -1
        ELSE IF rr = 0 THEN 1
        ELSE CmpFrac(s, rr, q, pr)

\* Python's round() of the exact value n/d (n >= 0, d > 0) to an integer:
\* to nearest, a tie to the even neighbour.
RoundHalfEven(n, d) ==
    LET q == n \div d
        r == n % d
    IN  IF 2 * r < d THEN q
        ELSE IF 2 * r > d THEN q + 1
        ELSE IF q % 2 = 0 THEN q ELSE q + 1

---------------------------------------------------------------------------
(* _detect_face_angle *)

\* left_dist = abs(nose_tip.x - left_cheek.x), in grid steps
left_dist(lms) == Abs(lms[landmarks.nose_tip][1] - lms[landmarks.left_cheek][1])

\* right_dist = abs(nose_tip.x - right_cheek.x), in grid steps
right_dist(lms) == Abs(lms[landmarks.nose_tip][1] - lms[landmarks.right_cheek][1])

\* if left_dist == 0 and right_dist == 0: the early return
never_undetectable(L, R) == FALSE
angle_undetectable(L, R) == L = 0 /\ R = 0

\* The record of the early return: it has no "ratio" key.
unknown_angle == [angle |-> "unknown", confidence |-> 0, suitable_for_analysis |-> FALSE]

\* ratio = left_dist / (left_dist + right_dist) if the sum is > 0 else 0.5,
\* as the fraction <<numerator, denominator>>
angle_ratio(L, R) == IF L + R > 0 THEN <<L, L + R>> ELSE <<1, 2>>

\* 0.4 <= ratio <= 0.6
ratio_is_frontal_strict(r) == 4 * r[2] < 10 * r[1] /\ 10 * r[1] < 6 * r[2]
ratio_is_frontal(r) == 4 * r[2] <= 10 * r[1] /\ 10 * r[1] <= 6 * r[2]

\* ratio < 0.3
ratio_is_right(r) == 10 * r[1] < 3 * r[2]

\* ratio > 0.7
ratio_is_left(r) == 10 * r[1] > 7 * r[2]

\* The ladder of angle_type ("正面", "右向き", "左向き", "斜め" in the source).
angle_type(r) ==
    IF ratio_is_frontal(r) THEN "frontal"
    ELSE IF ratio_is_right(r) THEN "facing-right"
    ELSE IF ratio_is_left(r) THEN "facing-left"
    ELSE "oblique"

\* The confidence of each rung, as the fraction <<numerator, denominator>>:
\* 1.0 - abs(ratio - 0.5) * 2 for a frontal face, else 0.7, 0.7, 0.5.
angle_confidence(r) ==
    IF ratio_is_frontal(r) THEN <<r[2] - Abs(2 * r[1] - r[2]), r[2]>>
    ELSE IF ratio_is_right(r) THEN <<7, 10>>
    ELSE IF ratio_is_left(r) THEN <<7, 10>>
    ELSE <<5, 10>>

\* confidence > 0.6, on the unrounded confidence
confidence_is_suitable(c) == 10 * c[1] > 6 * c[2]

\* round(confidence, 2), in hundredths
reported_confidence(c) == RoundHalfEven(100 * c[1], c[2])

\* round(ratio, 3), in thousandths
reported_ratio(r) == RoundHalfEven(1000 * r[1], r[2])

detect_face_angle(lms) ==
    LET L == left_dist(lms)
        R == right_dist(lms)
        r == angle_ratio(L, R)
        c == angle_confidence(r)
    IN  IF angle_undetectable(L, R) THEN unknown_angle
        ELSE [angle |-> angle_type(r),
              ratio |-> reported_ratio(r),
              confidence |-> reported_confidence(c),
              suitable_for_analysis |-> confidence_is_suitable(c)]

---------------------------------------------------------------------------
(* Helper methods: _calculate_distance, _point_to_line_distance *)

\* int(point.x * image_shape[1]) and int(point.y * image_shape[0])
Pixel(k, dim) == (k * dim) \div Grid

\* _calculate_distance: the square of the pixel distance it returns
calculate_distance_sq(point1, point2, shape) ==
    LET x1 == Pixel(point1[1], shape[2])
        y1 == Pixel(point1[2], shape[1])
        x2 == Pixel(point2[1], shape[2])
        y2 == Pixel(point2[2], shape[1])
    IN  (x2 - x1) * (x2 - x1) + (y2 - y1) * (y2 - y1)

\* np.cross(b - a, p - a), in grid steps squared
Cross(p, a, b) == (b[1] - a[1]) * (p[2] - a[2]) - (b[2] - a[2]) * (p[1] - a[1])

\* np.linalg.norm(v) ** 2 of v = q - p, in grid steps squared
NormSq(p, q) == (q[1] - p[1]) * (q[1] - p[1]) + (q[2] - p[2]) * (q[2] - p[2])

\* if np.linalg.norm(b - a) == 0
line_is_degenerate(a, b) == NormSq(a, b) = 0

\* _point_to_line_distance, in normalized coordinates: the distance is
\* sqrt(num / den) / Grid.  den is the square of the divisor of the division
\* of line 375 (1 on the branch that does not divide).
point_to_line_distance_signed_cross(point, line_point1, line_point2) ==
    IF line_is_degenerate(line_point1, line_point2)
    THEN [num |-> NormSq(line_point1, point), den |-> 1]
    ELSE [num |-> Cross(point, line_point1, line_point2)
                  * Abs(Cross(point, line_point1, line_point2)),
          den |-> NormSq(line_point1, line_point2)]
point_to_line_distance(point, line_point1, line_point2) ==
    IF line_is_degenerate(line_point1, line_point2)
    THEN [num |-> NormSq(line_point1, point), den |-> 1]
    ELSE [num |-> Cross(point, line_point1, line_point2)
                  * Cross(point, line_point1, line_point2),
          den |-> NormSq(line_point1, line_point2)]

---------------------------------------------------------------------------
(* _analyze_eline *)

\* A lip distance is point_to_line_distance * face_width: the real
\* sqrt(d.num * w2 / d.den) / Grid, kept as the three numbers (w2 is the
\* square of face_width).  round(., 2) of the reported distances is not
\* applied: the ladder reads the unrounded values.
lip_distance(d, w2) == [num |-> d.num, den |-> d.den, w2 |-> w2]

\* x <= t for a lip distance x and a bound t >= 0 in units
DistLeq(x, t) ==
    \/ x.w2 = 0
    \/ x.num = 0
    \/ CmpFrac(x.num, x.den, t * t * Grid * Grid, x.w2) <= 0

\* x > y for two lip distances of one face (the same face_width)
DistGreater(x, y) == x.w2 > 0 /\ CmpFrac(x.num, x.den, y.num, y.den) > 0

\* max(abs(upper_lip_dist), abs(lower_lip_dist)): both are >= 0
max_dist(upper_lip_dist, lower_lip_dist) ==
    IF DistGreater(lower_lip_dist, upper_lip_dist) THEN lower_lip_dist ELSE upper_lip_dist

\* The ladder of status ("理想的", "良好", "標準的", "上唇がやや前方",
\* "下唇がやや前方" in the source).
eline_status(upper_lip_dist, lower_lip_dist) ==
    LET m == max_dist(upper_lip_dist, lower_lip_dist)
    IN  IF DistLeq(m, eline_ideal_max) THEN "ideal"
        ELSE IF DistLeq(m, eline_tolerance) THEN "good"
        ELSE IF DistLeq(m, eline_standard_max) THEN "standard"
        ELSE IF DistGreater(upper_lip_dist, lower_lip_dist) THEN "upper-lip-forward"
        ELSE "lower-lip-forward"

\* evaluation = "良好" if max_dist <= eline_tolerance else "標準的"
eline_evaluation(upper_lip_dist, lower_lip_dist) ==
    IF DistLeq(max_dist(upper_lip_dist, lower_lip_dist), eline_tolerance)
    THEN "good" ELSE "standard"

analyze_eline(lms, shape) ==
    LET nose_tip == lms[landmarks.nose_tip]
        chin_tip == lms[landmarks.chin_tip]
        upper_lip == lms[landmarks.upper_lip_center]
        lower_lip == lms[landmarks.lower_lip_center]
        face_width2 == calculate_distance_sq(lms[landmarks.left_cheek],
                                             lms[landmarks.right_cheek], shape)
        upper_lip_dist ==
            lip_distance(point_to_line_distance(upper_lip, nose_tip, chin_tip), face_width2)
        lower_lip_dist ==
            lip_distance(point_to_line_distance(lower_lip, nose_tip, chin_tip), face_width2)
    IN  [status |-> eline_status(upper_lip_dist, lower_lip_dist),
         upper_lip_distance |-> upper_lip_dist,
         lower_lip_distance |-> lower_lip_dist,
         evaluation |-> eline_evaluation(upper_lip_dist, lower_lip_dist)]

---------------------------------------------------------------------------
(* _analyze_face_proportions *)

\* aspect_ratio = face_height / face_width is the real sqrt(h2 / w2), w2 > 0.
\* aspect_ratio >= t / 1000 and aspect_ratio <= t / 1000, for an integer t
AspectGeq(h2, w2, t) == t <= 0 \/ CmpFrac(h2, w2, t * t, 1000000) >= 0
AspectLeq(h2, w2, t) == t >= 0 /\ CmpFrac(h2, w2, t * t, 1000000) <= 0

\* 2 * aspect_ratio compared with t / 1000, t > 0
TwiceAspectCmp(h2, w2, t) == CmpFrac(4 * h2, w2, t * t, 1000000)

\* abs(aspect_ratio - a) <= abs(aspect_ratio - b): aspect_ratio is on a's
\* side of the midpoint of a and b
DiffLeq(h2, w2, a, b) ==
    IF a = b THEN TRUE
    ELSE IF a < b THEN TwiceAspectCmp(h2, w2, a + b) <= 0
    ELSE TwiceAspectCmp(h2, w2, a + b) >= 0

\* abs(aspect_ratio - c) <= t
DiffNotGreater(h2, w2, c, t) == AspectGeq(h2, w2, c - t) /\ AspectLeq(h2, w2, c + t)

\* abs(aspect_ratio - c) < t
DiffLess(h2, w2, c, t) == ~AspectLeq(h2, w2, c - t) /\ ~AspectGeq(h2, w2, c + t)

\* The three ideal ratios, in the order of the three differences.
ideal_ratios == <<golden_ratio, silver_ratio, japanese_face_ratio>>

\* min_diff == golden_diff, for min_diff = min(golden_diff, silver_diff, japanese_diff)
min_is_golden_strict(h2, w2) ==
    /\ ~DiffLeq(h2, w2, silver_ratio, golden_ratio)
    /\ ~DiffLeq(h2, w2, japanese_face_ratio, golden_ratio)
min_is_golden(h2, w2) ==
    /\ DiffLeq(h2, w2, golden_ratio, silver_ratio)
    /\ DiffLeq(h2, w2, golden_ratio, japanese_face_ratio)

\* min_diff == silver_diff
min_is_silver(h2, w2) ==
    /\ DiffLeq(h2, w2, silver_ratio, golden_ratio)
    /\ DiffLeq(h2, w2, silver_ratio, japanese_face_ratio)

\* The ladder of closest_ratio ("黄金比", "白銀比（大和比）", "日本人理想比").
closest_ratio(h2, w2) ==
    IF min_is_golden(h2, w2) THEN "golden"
    ELSE IF min_is_silver(h2, w2) THEN "silver"
    ELSE "japanese"

\* ideal_ratio: the beauty standard of the chosen rung
ideal_ratio(h2, w2) ==
    IF min_is_golden(h2, w2) THEN golden_ratio
    ELSE IF min_is_silver(h2, w2) THEN silver_ratio
    ELSE japanese_face_ratio

\* min_diff < t / 1000: the least of the three differences is below t
min_diff_not_greater(h2, w2, t) ==
    \E i \in 1..3 : DiffNotGreater(h2, w2, ideal_ratios[i], t)
min_diff_less(h2, w2, t) == \E i \in 1..3 : DiffLess(h2, w2, ideal_ratios[i], t)

\* The tiers of evaluation ("優秀", "良好", "標準的", "個性的" in the source).
proportions_evaluation(h2, w2) ==
    IF min_diff_less(h2, w2, proportions_excellent_below) THEN "excellent"
    ELSE IF min_diff_less(h2, w2, proportions_good_below) THEN "good"
    ELSE IF min_diff_less(h2, w2, proportions_standard_below) THEN "standard"
    ELSE "individual"

\* if face_width == 0: return {"error": ...}
proportions_error == [error |-> "face width could not be measured"]

\* The measured reals are kept exact: aspect_ratio as the pair of squares,
\* difference as the pair and the ideal it is taken from (round(., 3) is not
\* applied; no ladder reads the rounded values).
analyze_face_proportions(lms, shape) ==
    LET face_height2 == calculate_distance_sq(lms[landmarks.forehead_center],
                                              lms[landmarks.chin_tip], shape)
        face_width2 == calculate_distance_sq(lms[landmarks.left_cheek],
                                             lms[landmarks.right_cheek], shape)
    IN  IF face_width2 = 0 THEN proportions_error
        ELSE [aspect_ratio |-> <<face_height2, face_width2>>,
              closest_ratio |-> closest_ratio(face_height2, face_width2),
              ideal_ratio |-> ideal_ratio(face_height2, face_width2),
              difference |-> <<face_height2, face_width2,
                               ideal_ratio(face_height2, face_width2)>>,
              evaluation |-> proportions_evaluation(face_height2, face_width2)]

---------------------------------------------------------------------------
(* The sub-analyses that return fixed records (lines 391-479).  Floats are  *)
(* in thousandths; the Japanese labels are given in English.                *)

analyze_philtrum_chin_ratio ==
    [philtrum_length |-> 10000, chin_length |-> 20000, ratio |-> 2000,
     closest_ideal |-> "classic ideal (1:2)", target_ratio |-> 2000,
     difference |-> 0, evaluation |-> "ideal"]

analyze_nasolabial_angle ==
    [angle |-> 105000, ideal_range |-> "100-110 degrees", status |-> "ideal",
     evaluation |-> "excellent"]

analyze_vline_curvature ==
    [jaw_angle |-> 110000, sharpness |-> "sharp", evaluation |-> "good",
     vline_score |-> 85000]

analyze_facial_symmetry ==
    [symmetry_score |-> 85000, asymmetry_level |-> 15000,
     evaluation |-> "good symmetry"]

analyze_dental_protrusion ==
    [max_upper_protrusion |-> 2000, max_lower_protrusion |-> 1500,
     avg_upper_protrusion |-> 1800, avg_lower_protrusion |-> 1300,
     lip_status |-> "ideal", dental_status |-> "normal range",
     teeth_visible |-> FALSE, severity |-> "none",
     lip_balance |-> "well balanced",
     ideal_range |-> "within 2-4mm of the E-line", evaluation |-> "normal"]

analyze_face_contour ==
    [face_area |-> 15000000, face_perimeter |-> 500000, face_width |-> 150000,
     face_height |-> 180000, small_face_score |-> 85000,
     cheekbone_width |-> 140000, jaw_width |-> 120000, cheek_jaw_ratio |-> 750,
     vline_evaluation |-> "ideal"]

analyze_facial_harmony ==
    [avg_eye_width |-> 30000, nose_width |-> 25000, mouth_width |-> 45000,
     face_width |-> 150000, face_height |-> 180000, face_area |-> 15000000,
     eye_face_ratio |-> 200, nose_face_ratio |-> 170, mouth_face_ratio |-> 300,
     eye_area_ratio |-> 8, golden_deviation |-> 100, face_aspect_ratio |-> 1200,
     harmony_score |-> 82000, evaluation |-> "good", beauty_level |-> "high",
     explanation |-> "a well balanced face"]

---------------------------------------------------------------------------
(* _calculate_overall_score, _generate_beauty_advice, _get_angle_warning *)

\* base_score = 78.5
base_score == 78500

\* "detailed_scores"
detailed_scores_unbounded ==
    [eline |-> 185000, harmony |-> 78000, symmetry |-> 82000, proportions |-> 75000]
detailed_scores ==
    [eline |-> 85000, harmony |-> 78000, symmetry |-> 82000, proportions |-> 75000]

\* "score_breakdown": "85.0 (重み15%)" is the pair of the score and the
\* percentage weight it shows.
score_breakdown ==
    [eline |-> [score |-> 85000, weight |-> 15],
     harmony |-> [score |-> 78000, weight |-> 25],
     symmetry |-> [score |-> 82000, weight |-> 6]]

calculate_overall_score(results) ==
    [score |-> base_score,
     level |-> "good-looking ordinary person level",
     tier |-> "C",
     description |-> "a beauty people turn to look at in the street",
     emoji |-> "cherry-blossom",
     detailed_scores |-> detailed_scores,
     score_breakdown |-> score_breakdown,
     severe_flaws |-> <<>>,
     explanation_details |->
         [strong_points |-> <<"good E-line", "well balanced face">>,
          weak_points |-> <<>>,
          bonus_factors |-> <<>>,
          penalty_factors |-> <<>>,
          improvement_suggestions |-> <<"improve make-up technique">>],
     note |-> "overall evaluation by Korean cosmetic-surgery standards and the golden ratio"]

\* The fixed last element of the advice list.
disclaimer == "note: this advice is general beauty information, not medical advice"

generate_beauty_advice_without_disclaimer(results) ==
    <<"you have an ideal E-line", "a well balanced beautiful face",
      "make-up technique can bring out more beauty">>
generate_beauty_advice(results) ==
    <<"you have an ideal E-line", "a well balanced beautiful face",
      "make-up technique can bring out more beauty", disclaimer>>

\* The value None and the warning string, which names the angle and the
\* confidence of the face-angle record.
NoWarning == [is_none |-> TRUE, angle |-> "", confidence |-> 0]

\* face_angle.get("suitable_for_analysis", True)
get_suitable(face_angle) ==
    IF "suitable_for_analysis" \in DOMAIN face_angle
    THEN face_angle.suitable_for_analysis ELSE TRUE

get_angle_warning(face_angle) ==
    IF ~get_suitable(face_angle)
    THEN [is_none |-> FALSE, angle |-> face_angle.angle,
          confidence |-> face_angle.confidence]
    ELSE NoWarning

---------------------------------------------------------------------------
(* The result models of app/models/analysis.py: a record is accepted when   *)
(* every required field is present and every bounded field is in range;     *)
(* extra keys are ignored.                                                  *)

Has(rec, fields) == fields \subseteq DOMAIN rec

\* Field(ge=0, le=100) on a score in thousandths
InScoreRange(x) == 0 <= x /\ x <= 100000

FaceAngleFields == {"angle", "ratio", "confidence", "suitable_for_analysis"}
ElineAnalysisFields == {"status", "upper_lip_distance", "lower_lip_distance", "evaluation"}
FaceProportionsFields ==
    {"aspect_ratio", "closest_ratio", "ideal_ratio", "difference", "evaluation"}
PhiltrumChinRatioFields ==
    {"philtrum_length", "chin_length", "ratio", "closest_ideal", "target_ratio",
     "difference", "evaluation"}
NasolabialAngleFields == {"angle", "ideal_range", "status", "evaluation"}
VlineAnalysisFields == {"jaw_angle", "sharpness", "evaluation", "vline_score"}
SymmetryAnalysisFields == {"symmetry_score", "asymmetry_level", "evaluation"}
DentalProtrusionFields ==
    {"max_upper_protrusion", "max_lower_protrusion", "avg_upper_protrusion",
     "avg_lower_protrusion", "lip_status", "dental_status", "teeth_visible",
     "severity", "lip_balance", "ideal_range", "evaluation"}
FaceContourFields ==
    {"face_area", "face_perimeter", "face_width", "face_height", "small_face_score",
     "cheekbone_width", "jaw_width", "cheek_jaw_ratio", "vline_evaluation"}
FacialHarmonyFields ==
    {"avg_eye_width", "nose_width", "mouth_width", "face_width", "face_height",
     "face_area", "eye_face_ratio", "nose_face_ratio", "mouth_face_ratio",
     "eye_area_ratio", "golden_deviation", "face_aspect_ratio", "harmony_score",
     "evaluation", "beauty_level", "explanation"}
OverallScoreFields ==
    {"score", "level", "tier", "description", "emoji", "detailed_scores",
     "score_breakdown", "severe_flaws", "explanation_details", "note"}

\* FaceAngle: ratio (thousandths) and confidence (hundredths) are ge=0, le=1.
FaceAngle(rec) ==
    /\ Has(rec, FaceAngleFields)
    /\ 0 <= rec.ratio /\ rec.ratio <= 1000
    /\ 0 <= rec.confidence /\ rec.confidence <= 100

ElineAnalysis(rec) == Has(rec, ElineAnalysisFields)

FaceProportions(rec) == Has(rec, FaceProportionsFields)

PhiltrumChinRatio(rec) == Has(rec, PhiltrumChinRatioFields)

NasolabialAngle(rec) == Has(rec, NasolabialAngleFields)

VlineAnalysis(rec) == Has(rec, VlineAnalysisFields) /\ InScoreRange(rec.vline_score)

SymmetryAnalysis(rec) == Has(rec, SymmetryAnalysisFields) /\ InScoreRange(rec.symmetry_score)

DentalProtrusion(rec) == Has(rec, DentalProtrusionFields)

FaceContour(rec) == Has(rec, FaceContourFields) /\ InScoreRange(rec.small_face_score)

FacialHarmony(rec) == Has(rec, FacialHarmonyFields) /\ InScoreRange(rec.harmony_score)

OverallScore(rec) == Has(rec, OverallScoreFields) /\ InScoreRange(rec.score)

\* The record a model keeps of an accepted dict: its own fields.
Keep(rec, fields) == [f \in fields |-> rec[f]]

\* FaceAnalysisResult(...): whether the thirteen values are accepted
FaceAnalysisResultAccepts(results, score) ==
    /\ FaceAngle(results.face_angle)
    /\ FaceContour(results.face_contour)
    /\ ElineAnalysis(results.eline)
    /\ FaceProportions(results.proportions)
    /\ PhiltrumChinRatio(results.philtrum_chin)
    /\ NasolabialAngle(results.nasolabial_angle)
    /\ VlineAnalysis(results.vline)
    /\ SymmetryAnalysis(results.symmetry)
    /\ DentalProtrusion(results.dental_protrusion)
    /\ FacialHarmony(results.facial_harmony)
    /\ OverallScore(score)

\* The FaceAnalysisResult built from accepted values.
FaceAnalysisResult_stamped_info(now, shape, total, results, score, advice, warning) ==
    [timestamp |-> now,
     image_info |-> [filename |-> "image.jpg", dimensions |-> <<shape[2], shape[1]>>,
                     total_landmarks |-> total, created |-> now],
     face_angle |-> results.face_angle, face_contour |-> results.face_contour,
     eline |-> results.eline, proportions |-> results.proportions,
     philtrum_chin |-> results.philtrum_chin,
     nasolabial_angle |-> results.nasolabial_angle, vline |-> results.vline,
     symmetry |-> results.symmetry, dental_protrusion |-> results.dental_protrusion,
     facial_harmony |-> results.facial_harmony, overall_score |-> score,
     beauty_advice |-> advice, angle_warning |-> warning]
FaceAnalysisResult(now, shape, total, results, score, advice, warning) ==
    [timestamp |-> now,
     image_info |-> [filename |-> "image.jpg",
                     dimensions |-> <<shape[2], shape[1]>>,
                     total_landmarks |-> total],
     face_angle |-> Keep(results.face_angle, FaceAngleFields),
     face_contour |-> Keep(results.face_contour, FaceContourFields),
     eline |-> Keep(results.eline, ElineAnalysisFields),
     proportions |-> Keep(results.proportions, FaceProportionsFields),
     philtrum_chin |-> Keep(results.philtrum_chin, PhiltrumChinRatioFields),
     nasolabial_angle |-> Keep(results.nasolabial_angle, NasolabialAngleFields),
     vline |-> Keep(results.vline, VlineAnalysisFields),
     symmetry |-> Keep(results.symmetry, SymmetryAnalysisFields),
     dental_protrusion |-> Keep(results.dental_protrusion, DentalProtrusionFields),
     facial_harmony |-> Keep(results.facial_harmony, FacialHarmonyFields),
     overall_score |-> Keep(score, OverallScoreFields),
     beauty_advice |-> advice,
     angle_warning |-> warning]

---------------------------------------------------------------------------
(* The inputs of one call of _perform_comprehensive_analysis *)

\* The positions each landmark is drawn from, in grid steps.
NosePoints == {<<x, 5>> : x \in 0..Grid}
LeftCheekPoints == {<<0, 5>>, <<2, 5>>}
RightCheekPoints == {<<x, y>> : x \in 0..Grid, y \in {5, 6}}
ForeheadPoints == {<<5, 0>>}
ChinPoints == {<<5, Grid>>, <<5, 5>>, <<7, 9>>}
UpperLipPoints == {<<5, 6>>, <<6, 6>>}
LowerLipPoints == {<<5, 7>>, <<6, 7>>, <<3, 7>>}

\* <<h, w>> of the image.
ImageShapes ==
    {<<100, 100>>, <<64, 48>>, <<1539, 1000>>, <<1437, 1000>>, <<1768, 1000>>}

\* len(landmarks): the 478 points of the refined face mesh, the 468 points
\* of the unrefined one, or a list too short to hold the cheeks.
LandmarkCounts == {478, 468, 2}

\* The landmark lists with every read index present.
FullLandmarkSets ==
    { (landmarks.nose_tip :> n) @@ (landmarks.chin_tip :> c)
      @@ (landmarks.forehead_center :> f) @@ (landmarks.upper_lip_center :> u)
      @@ (landmarks.lower_lip_center :> l) @@ (landmarks.left_cheek :> lc)
      @@ (landmarks.right_cheek :> rc) :
        n \in NosePoints, c \in ChinPoints, f \in ForeheadPoints,
        u \in UpperLipPoints, l \in LowerLipPoints,
        lc \in LeftCheekPoints, rc \in RightCheekPoints }

\* The lists of a given length: the entries below the length.
LandmarkSets(total) ==
    { [i \in {j \in DOMAIN lms : j < total} |-> lms[i]] : lms \in FullLandmarkSets }

EmptyRecord == [k \in {} |-> 0]

NoOutcome == [kind |-> "none", stage |-> "", value |-> EmptyRecord]

\* raise AnalysisError(..., stage=stage)
AnalysisError(stage) == [kind |-> "AnalysisError", stage |-> stage, value |-> EmptyRecord]

Returned(result) == [kind |-> "result", stage |-> "", value |-> result]

\* Neither _extract_score copy has returned.
NothingExtracted == [linebot |-> <<>>, report |-> <<>>]

Init ==
    /\ total_landmarks \in LandmarkCounts
    /\ landmark_set \in LandmarkSets(total_landmarks)
    /\ image_shape \in ImageShapes
    /\ pc = "face_angle"
    /\ analysis_results = EmptyRecord
    /\ overall_score = EmptyRecord
    /\ beauty_advice = <<>>
    /\ outcome = NoOutcome
    /\ analyzer = AnalyzerInstance
    /\ calls = <<>>
    /\ frames = <<>>
    /\ temp_files = {}
    /\ data = EmptyRecord
    /\ extracted = NothingExtracted
    /\ AppIdle

---------------------------------------------------------------------------
(* _perform_comprehensive_analysis, one action per statement *)

\* landmarks[i] raises IndexError unless i < len(landmarks)
CanRead(names) == \A name \in names : landmarks[name] < total_landmarks

\* One sub-analysis statement of lines 166-175: the value is bound, or the
\* exception of a failed read is caught at line 221 and re-raised.
SubAnalysis(at, next, name, reads, value) ==
    /\ pc = at
    /\ IF CanRead(reads)
       THEN /\ analysis_results' = analysis_results @@ (name :> value)
            /\ pc' = next
            /\ outcome' = outcome
       ELSE /\ analysis_results' = analysis_results
            /\ pc' = "done"
            /\ outcome' = AnalysisError("comprehensive_analysis")
    /\ UNCHANGED <<landmark_set, total_landmarks, image_shape, overall_score,
                   beauty_advice, service_vars,
                   extract_vars, app_vars>>

DetectFaceAngle ==
    SubAnalysis("face_angle", "face_contour", "face_angle",
                {"nose_tip", "left_cheek", "right_cheek"},
                detect_face_angle(landmark_set))

AnalyzeFaceContour ==
    SubAnalysis("face_contour", "eline", "face_contour", {}, analyze_face_contour)

AnalyzeEline ==
    SubAnalysis("eline", "proportions", "eline",
                {"nose_tip", "chin_tip", "upper_lip_center", "lower_lip_center",
                 "left_cheek", "right_cheek"},
                analyze_eline(landmark_set, image_shape))

AnalyzeFaceProportions ==
    SubAnalysis("proportions", "philtrum_chin", "proportions",
                {"forehead_center", "chin_tip", "left_cheek", "right_cheek"},
                analyze_face_proportions(landmark_set, image_shape))

AnalyzePhiltrumChinRatio ==
    SubAnalysis("philtrum_chin", "nasolabial_angle", "philtrum_chin", {},
                analyze_philtrum_chin_ratio)

AnalyzeNasolabialAngle ==
    SubAnalysis("nasolabial_angle", "vline", "nasolabial_angle", {},
                analyze_nasolabial_angle)

AnalyzeVlineCurvature ==
    SubAnalysis("vline", "symmetry", "vline", {}, analyze_vline_curvature)

AnalyzeFacialSymmetry ==
    SubAnalysis("symmetry", "dental_protrusion", "symmetry", {},
                analyze_facial_symmetry)

AnalyzeDentalProtrusion ==
    SubAnalysis("dental_protrusion", "facial_harmony", "dental_protrusion", {},
                analyze_dental_protrusion)

AnalyzeFacialHarmony ==
    SubAnalysis("facial_harmony", "overall_score", "facial_harmony", {},
                analyze_facial_harmony)

\* overall_score = self._calculate_overall_score(analysis_results)
CalculateOverallScore ==
    /\ pc = "overall_score"
    /\ overall_score' = calculate_overall_score(analysis_results)
    /\ pc' = "beauty_advice"
    /\ UNCHANGED <<landmark_set, total_landmarks, image_shape, analysis_results,
                   beauty_advice, outcome, service_vars,
                   extract_vars, app_vars>>

\* beauty_advice = self._generate_beauty_advice(analysis_results)
GenerateBeautyAdvice ==
    /\ pc = "beauty_advice"
    /\ beauty_advice' = generate_beauty_advice(analysis_results)
    /\ pc' = "result"
    /\ UNCHANGED <<landmark_set, total_landmarks, image_shape, analysis_results,
                   overall_score, outcome, service_vars,
                   extract_vars, app_vars>>

\* result = FaceAnalysisResult(...); return result.  A value a model rejects
\* raises a validation error, which line 221 catches and re-raises.
CreateResult ==
    /\ pc = "result"
    /\ \E now \in 0..MaxClock :
         outcome' =
           IF FaceAnalysisResultAccepts(analysis_results, overall_score)
           THEN Returned(FaceAnalysisResult(now, image_shape, total_landmarks,
                                            analysis_results, overall_score,
                                            beauty_advice,
                                            get_angle_warning(analysis_results.face_angle)))
           ELSE AnalysisError("comprehensive_analysis")
    /\ pc' = "done"
    /\ UNCHANGED <<landmark_set, total_landmarks, image_shape, analysis_results,
                   overall_score, beauty_advice, service_vars,
                   extract_vars, app_vars>>

Next ==
    \/ DetectFaceAngle
    \/ AnalyzeFaceContour
    \/ AnalyzeEline
    \/ AnalyzeFaceProportions
    \/ AnalyzePhiltrumChinRatio
    \/ AnalyzeNasolabialAngle
    \/ AnalyzeVlineCurvature
    \/ AnalyzeFacialSymmetry
    \/ AnalyzeDentalProtrusion
    \/ AnalyzeFacialHarmony
    \/ CalculateOverallScore
    \/ GenerateBeautyAdvice
    \/ CreateResult

Spec == Init /\ [][Next]_vars

---------------------------------------------------------------------------
(* analyze_image_async: the invocations on the shared analyzer instance,    *)
(* each run by _analyze_image_sync on a thread of the executor              *)

\* The number of invocations in flight.
MaxCalls == 2

Invocations == 1..MaxCalls

\* len(results.multi_face_landmarks[0].landmark) of a FaceMesh created with
\* refine_landmarks=True
refined_mesh_landmark_count == 478

\* The faces the images of the invocations show: the nose tip on the left
\* cheek's x or three steps right of it, the right cheek on the left cheek
\* or at the right edge.
CallLandmarkSets ==
    { lms \in FullLandmarkSets :
        /\ lms[landmarks.nose_tip][1] \in {0, 3}
        /\ lms[landmarks.left_cheek] = <<0, 5>>
        /\ lms[landmarks.right_cheek] \in {<<0, 5>>, <<Grid, 5>>}
        /\ lms[landmarks.chin_tip] = <<5, Grid>>
        /\ lms[landmarks.upper_lip_center] = <<5, 6>>
        /\ lms[landmarks.lower_lip_center] = <<5, 7>> }

\* image_data: bytes cv2 cannot decode, an image with no face, or an image
\* of a face.
CallImages ==
    {[kind |-> "unreadable", shape |-> <<0, 0>>, landmark_set |-> <<>>],
     [kind |-> "no_face", shape |-> <<100, 100>>, landmark_set |-> <<>>]}
        \cup {[kind |-> "face", shape |-> <<100, 100>>, landmark_set |-> lms] :
                lms \in CallLandmarkSets}

\* The local variables of one _perform_comprehensive_analysis before line 166.
EmptyFrame ==
    [analysis_results |-> EmptyRecord, overall_score |-> EmptyRecord,
     beauty_advice |-> <<>>]

\* The frame an invocation's _perform_comprehensive_analysis runs in: its own.
FrameOfInstance(i) == 1
FrameOf(i) == i

\* temp_file.name: NamedTemporaryFile gives each invocation a fresh name.
temp_path(i) == i

CallsInit ==
    /\ calls \in [Invocations ->
                    {[pc |-> "temp_file", image |-> img, total_landmarks |-> 0,
                      pending |-> NoOutcome, outcome |-> NoOutcome] :
                        img \in CallImages}]
    /\ frames = [i \in Invocations |-> EmptyFrame]
    /\ analyzer = AnalyzerInstance
    /\ temp_files = {}
    /\ data = EmptyRecord
    /\ extracted = NothingExtracted
    /\ AppIdle
    /\ total_landmarks = 0
    /\ landmark_set = <<>>
    /\ image_shape = <<0, 0>>
    /\ pc = "idle"
    /\ analysis_results = EmptyRecord
    /\ overall_score = EmptyRecord
    /\ beauty_advice = <<>>
    /\ outcome = NoOutcome

\* What the steps of an invocation leave alone.
CallFrame ==
    UNCHANGED <<landmark_set, total_landmarks, image_shape, pc, analysis_results,
                overall_score, beauty_advice, outcome, analyzer, extract_vars, app_vars>>

\* with tempfile.NamedTemporaryFile(...) as temp_file: temp_file.write(image_data)
WriteTempFile(i) ==
    /\ calls[i].pc = "temp_file"
    /\ temp_files' = temp_files \cup {temp_path(i)}
    /\ calls' = [calls EXCEPT ![i].pc = "imread"]
    /\ UNCHANGED frames
    /\ CallFrame

\* image = cv2.imread(image_path); if image is None: raise AnalysisError
ReadImage(i) ==
    /\ calls[i].pc = "imread"
    /\ IF temp_path(i) \in temp_files /\ calls[i].image.kind # "unreadable"
       THEN calls' = [calls EXCEPT ![i].pc = "face_mesh"]
       ELSE calls' = [calls EXCEPT ![i].pc = "unlink",
                                   ![i].pending = AnalysisError("image_loading")]
    /\ UNCHANGED <<frames, temp_files>>
    /\ CallFrame

\* results = face_mesh.process(image_rgb) on this invocation's own FaceMesh;
\* if not results.multi_face_landmarks: raise AnalysisError
ProcessFaceMesh(i) ==
    /\ calls[i].pc = "face_mesh"
    /\ IF calls[i].image.kind = "face"
       THEN calls' = [calls EXCEPT ![i].pc = "analyses",
                                   ![i].total_landmarks = refined_mesh_landmark_count]
       ELSE calls' = [calls EXCEPT ![i].pc = "unlink",
                                   ![i].pending = AnalysisError("face_detection")]
    /\ UNCHANGED <<frames, temp_files>>
    /\ CallFrame

\* analysis_results = {...}: the ten sub-analyses of lines 166-175
comprehensive_results(lms, shape) ==
    [face_angle |-> detect_face_angle(lms),
     face_contour |-> analyze_face_contour,
     eline |-> analyze_eline(lms, shape),
     proportions |-> analyze_face_proportions(lms, shape),
     philtrum_chin |-> analyze_philtrum_chin_ratio,
     nasolabial_angle |-> analyze_nasolabial_angle,
     vline |-> analyze_vline_curvature,
     symmetry |-> analyze_facial_symmetry,
     dental_protrusion |-> analyze_dental_protrusion,
     facial_harmony |-> analyze_facial_harmony]

\* The landmark names lines 166-175 read.
ReadLandmarks ==
    {"nose_tip", "chin_tip", "forehead_center", "upper_lip_center",
     "lower_lip_center", "left_cheek", "right_cheek"}

\* Lines 166-189 of an invocation: the sub-analyses and the dict of them.
PerformAnalyses(i) ==
    /\ calls[i].pc = "analyses"
    /\ IF \A name \in ReadLandmarks : landmarks[name] < calls[i].total_landmarks
       THEN /\ frames' = [frames EXCEPT ![FrameOf(i)].analysis_results =
                            comprehensive_results(calls[i].image.landmark_set,
                                                  calls[i].image.shape)]
            /\ calls' = [calls EXCEPT ![i].pc = "score"]
       ELSE /\ frames' = frames
            /\ calls' = [calls EXCEPT ![i].pc = "unlink",
                             ![i].pending = AnalysisError("comprehensive_analysis")]
    /\ UNCHANGED temp_files
    /\ CallFrame

\* Lines 192-193 of an invocation.
ScoreAndAdvise(i) ==
    /\ calls[i].pc = "score"
    /\ frames' = [frames EXCEPT
          ![FrameOf(i)].overall_score =
              calculate_overall_score(frames[FrameOf(i)].analysis_results),
          ![FrameOf(i)].beauty_advice =
              generate_beauty_advice(frames[FrameOf(i)].analysis_results)]
    /\ calls' = [calls EXCEPT ![i].pc = "result"]
    /\ UNCHANGED temp_files
    /\ CallFrame

\* Lines 196-226 of an invocation: the result, or the validation error
\* re-raised with stage comprehensive_analysis.
AssembleResult(i) ==
    /\ calls[i].pc = "result"
    /\ \E now \in 0..MaxClock :
         LET frame == frames[FrameOf(i)]
         IN  calls' = [calls EXCEPT
                 ![i].pc = "unlink",
                 ![i].pending =
                     IF FaceAnalysisResultAccepts(frame.analysis_results,
                                                  frame.overall_score)
                     THEN Returned(FaceAnalysisResult(
                              now, calls[i].image.shape, calls[i].total_landmarks,
                              frame.analysis_results, frame.overall_score,
                              frame.beauty_advice,
                              get_angle_warning(frame.analysis_results.face_angle)))
                     ELSE AnalysisError("comprehensive_analysis")]
    /\ UNCHANGED <<frames, temp_files>>
    /\ CallFrame

\* finally: Path(temp_path).unlink(missing_ok=True)
UnlinkTempFile(i) ==
    /\ calls[i].pc = "unlink"
    /\ temp_files' = temp_files \ {temp_path(i)}
    /\ calls' = [calls EXCEPT ![i].pc = "handler"]
    /\ UNCHANGED frames
    /\ CallFrame

\* return result, or except Exception as e: raise AnalysisError(...,
\* stage="image_processing") from e
ReturnOrReraise(i) ==
    /\ calls[i].pc = "handler"
    /\ calls' = [calls EXCEPT
          ![i].pc = "done",
          ![i].outcome = IF calls[i].pending.kind = "AnalysisError"
                         THEN AnalysisError("image_processing")
                         ELSE calls[i].pending]
    /\ UNCHANGED <<frames, temp_files>>
    /\ CallFrame

CallsNext ==
    \E i \in Invocations :
        \/ WriteTempFile(i)
        \/ ReadImage(i)
        \/ ProcessFaceMesh(i)
        \/ PerformAnalyses(i)
        \/ ScoreAndAdvise(i)
        \/ AssembleResult(i)
        \/ UnlinkTempFile(i)
        \/ ReturnOrReraise(i)

SpecCalls == CallsInit /\ [][CallsNext]_vars

---------------------------------------------------------------------------
(* _extract_score of LineBotService and of ReportGenerator.  A string is     *)
(* the sequence of the code points of its characters.                       *)

\* The number of words in an evaluation text.
MaxWords == 2

\* The string literals of linebot_service.py lines 626-630
linebot_ideal == <<29702, 24819>>
linebot_excellent == <<20778, 31168>>
linebot_good == <<33391, 22909>>
linebot_standard == <<27161, 28310>>

\* The string literals of report_generator.py lines 390-394, as the file
\* holds them
report_ideal == <<231, 8224, 230, 402, 179>>
report_excellent == <<229, 8222, 170, 231, 167, 8364>>
report_good == <<232, 8240, 175, 229, 165, 189>>
report_standard == <<230, 168, 8482, 230, 186, 8211>>

\* str.lower() of one character: the capital letters of ASCII and Latin-1
\* have a small letter 32 code points up; the other characters of the texts
\* here have none.
LowerChar(c) ==
    IF (65 <= c /\ c <= 90) \/ (192 <= c /\ c <= 222 /\ c # 215) THEN c + 32 ELSE c

\* text.lower()
Lower(text) == [k \in DOMAIN text |-> LowerChar(text[k])]

\* needle in text
Contains(needle, text) ==
    \E k \in 0..(Len(text) - Len(needle)) :
        SubSeq(text, k + 1, k + Len(needle)) = needle

\* LineBotService._extract_score(data), in thousandths
LineBotService_extract_score(d) ==
    IF "score" \in DOMAIN d THEN d.score
    ELSE IF "evaluation" \in DOMAIN d
    THEN LET evaluation == Lower(d.evaluation)
         IN  IF Contains(linebot_ideal, evaluation) \/ Contains(linebot_excellent, evaluation)
             THEN 90000
             ELSE IF Contains(linebot_good, evaluation) THEN 80000
             ELSE IF Contains(linebot_standard, evaluation) THEN 70000
             ELSE 60000
    ELSE 70000

\* ReportGenerator._extract_score(data, default) of a dict, which has no
\* attribute score, in thousandths
ReportGenerator_extract_score(d, default) ==
    IF "score" \in DOMAIN d THEN d.score
    ELSE IF "evaluation" \in DOMAIN d
    THEN LET eval_text == Lower(d.evaluation)
         IN  IF Contains(report_ideal, eval_text) \/ Contains(report_excellent, eval_text)
             THEN 90000
             ELSE IF Contains(report_good, eval_text) THEN 80000
             ELSE IF Contains(report_standard, eval_text) THEN 70000
             ELSE 60000
    ELSE default

\* default: float = 70.0
report_default == 70000

\* The words of the evaluation texts: the five evaluations the analyzer
\* and the claim name (ideal, excellent, good, standard, individual), and
\* two texts of Latin-1 letters and signs, one the capitalised other.
EvaluationWords ==
    {<<29702, 24819, 30340>>, <<20778, 31168>>, <<33391, 22909>>,
     <<27161, 28310, 30340>>, <<20491, 24615, 30340>>,
     <<232, 8240, 175, 229, 165, 189>>, <<200, 8240, 175, 197, 165, 189>>}

\* The texts of at most n words.
RECURSIVE EvaluationTexts(_)
EvaluationTexts(n) ==
    IF n = 0 THEN {<<>>}
    ELSE LET shorter == EvaluationTexts(n - 1)
         IN  shorter \cup {t \o w : t \in shorter, w \in EvaluationWords}

\* The score fields of the dicts.
ScoreValues == {0, 78500, 100000}

\* The dicts _extract_score is given: with or without a score, with or
\* without an evaluation.
ExtractInputs ==
    {EmptyRecord}
        \cup {[score |-> s] : s \in ScoreValues}
        \cup {[evaluation |-> t] : t \in EvaluationTexts(MaxWords)}
        \cup {[score |-> s, evaluation |-> t] :
                s \in ScoreValues, t \in EvaluationTexts(MaxWords)}

ExtractInit ==
    /\ data \in ExtractInputs
    /\ extracted = NothingExtracted
    /\ AppIdle
    /\ analyzer = AnalyzerInstance
    /\ calls = <<>>
    /\ frames = <<>>
    /\ temp_files = {}
    /\ total_landmarks = 0
    /\ landmark_set = <<>>
    /\ image_shape = <<0, 0>>
    /\ pc = "idle"
    /\ analysis_results = EmptyRecord
    /\ overall_score = EmptyRecord
    /\ beauty_advice = <<>>
    /\ outcome = NoOutcome

\* score = self._extract_score(feature_data) of the LINE bot
LineBotExtractScore ==
    /\ extracted.linebot = <<>>
    /\ extracted' = [extracted EXCEPT !.linebot = <<LineBotService_extract_score(data)>>]
    /\ UNCHANGED <<landmark_set, total_landmarks, image_shape, pc, analysis_results,
                   overall_score, beauty_advice, outcome, service_vars, data, app_vars>>

\* self._extract_score(data) of the report generator
ReportExtractScore ==
    /\ extracted.report = <<>>
    /\ extracted' = [extracted EXCEPT
                       !.report = <<ReportGenerator_extract_score(data, report_default)>>]
    /\ UNCHANGED <<landmark_set, total_landmarks, image_shape, pc, analysis_results,
                   overall_score, beauty_advice, outcome, service_vars, data, app_vars>>

ExtractNext ==
    \/ LineBotExtractScore
    \/ ReportExtractScore

SpecExtract == ExtractInit /\ [][ExtractNext]_vars

---------------------------------------------------------------------------
(* The service accessors: get_linebot_service, get_analysis_service,        *)
(* get_chatbot_service, get_storage_service, get_facial_analyzer.  Each     *)
(* keeps its instance in a module-level global.  An operator takes and      *)
(* gives the record s of the globals, the number of objects constructed    *)
(* and the returns so far; an object is known by the number id it got when  *)
(* it was constructed.                                                      *)

MaxClients == 2
MaxReturns == 7

\* The supabase clients a caller can pass.
Clients == 1..MaxClients

\* A constructed object of class cls whose self.supabase is client.
NewObject(s, cls, client) ==
    [is_none |-> FALSE, id |-> s.constructed + 1, class |-> cls, supabase |-> client]

\* return <the global>: the call gives its caller the instance
Return(s, accessor, client, instance) ==
    [s EXCEPT !.returns = Append(@, [accessor |-> accessor, client |-> client,
                                     instance |-> instance])]

\* get_facial_analyzer takes no client; the log shows 0 for it.
get_facial_analyzer(s) ==
    LET t == IF s.globals.analyzer_instance = None
             THEN [s EXCEPT !.constructed = @ + 1,
                            !.globals.analyzer_instance =
                                NewObject(s, "ModernFacialBeautyAnalyzer", 0)]
             ELSE s
    IN  Return(t, "get_facial_analyzer", 0, t.globals.analyzer_instance)

get_storage_service(s, supabase_client) ==
    LET t == IF s.globals.storage_service_instance = None
             THEN [s EXCEPT !.constructed = @ + 1,
                            !.globals.storage_service_instance =
                                NewObject(s, "StorageService", supabase_client)]
             ELSE s
    IN  Return(t, "get_storage_service", supabase_client,
               t.globals.storage_service_instance)

get_chatbot_service(s, supabase_client) ==
    LET t == IF s.globals.chatbot_service_instance = None
             THEN [s EXCEPT !.constructed = @ + 1,
                            !.globals.chatbot_service_instance =
                                NewObject(s, "BeautyChatbotService", supabase_client)]
             ELSE s
    IN  Return(t, "get_chatbot_service", supabase_client,
               t.globals.chatbot_service_instance)

\* AnalysisService.__init__: self.analyzer = get_facial_analyzer();
\* self.storage_service = get_storage_service(supabase_client)
AnalysisService(s, supabase_client) ==
    LET t == get_storage_service(get_facial_analyzer(s), supabase_client)
    IN  [state |-> [t EXCEPT !.constructed = @ + 1],
         object |-> NewObject(t, "AnalysisService", supabase_client)]

get_analysis_service_always_new(s, supabase_client) ==
    LET made == AnalysisService(s, supabase_client)
        t == [made.state EXCEPT !.globals.analysis_service_instance = made.object]
    IN  Return(t, "get_analysis_service", supabase_client,
               t.globals.analysis_service_instance)

get_analysis_service(s, supabase_client) ==
    LET made == AnalysisService(s, supabase_client)
        t == IF s.globals.analysis_service_instance = None
             THEN [made.state EXCEPT !.globals.analysis_service_instance = made.object]
             ELSE s
    IN  Return(t, "get_analysis_service", supabase_client,
               t.globals.analysis_service_instance)

\* LineBotService.__init__: self.analysis_service = get_analysis_service(client);
\* self.chatbot_service = get_chatbot_service(client)
LineBotService(s, supabase_client) ==
    LET t == get_chatbot_service(get_analysis_service(s, supabase_client),
                                 supabase_client)
    IN  [state |-> [t EXCEPT !.constructed = @ + 1],
         object |-> NewObject(t, "LineBotService", supabase_client)]

get_linebot_service(s, supabase_client) ==
    LET made == LineBotService(s, supabase_client)
        t == IF s.globals.linebot_service_instance = None
             THEN [made.state EXCEPT !.globals.linebot_service_instance = made.object]
             ELSE s
    IN  Return(t, "get_linebot_service", supabase_client,
               t.globals.linebot_service_instance)

SingletonInit ==
    /\ SingletonIdle
    /\ WebhookIdle /\ UploadIdle /\ ChatIdle
    /\ analyzer = AnalyzerInstance
    /\ calls = <<>>
    /\ frames = <<>>
    /\ temp_files = {}
    /\ data = EmptyRecord
    /\ extracted = NothingExtracted
    /\ total_landmarks = 0
    /\ landmark_set = <<>>
    /\ image_shape = <<0, 0>>
    /\ pc = "idle"
    /\ analysis_results = EmptyRecord
    /\ overall_score = EmptyRecord
    /\ beauty_advice = <<>>
    /\ outcome = NoOutcome

\* The globals, the object count and the log as one record, and back.
AccessorState ==
    [globals |-> module_globals, constructed |-> constructed, returns |-> returns]

AccessorCall(s) ==
    /\ Len(returns) < MaxReturns
    /\ module_globals' = s.globals
    /\ constructed' = s.constructed
    /\ returns' = s.returns
    /\ UNCHANGED <<landmark_set, total_landmarks, image_shape, pc, analysis_results,
                   overall_score, beauty_advice, outcome, service_vars, extract_vars,
                   webhook_vars, upload_vars, chat_vars>>

\* a caller runs get_linebot_service(supabase_client)
GetLinebotService ==
    \E c \in Clients : AccessorCall(get_linebot_service(AccessorState, c))

\* a caller runs get_analysis_service(supabase_client)
GetAnalysisService ==
    \E c \in Clients : AccessorCall(get_analysis_service(AccessorState, c))

\* a caller runs get_facial_analyzer()
GetFacialAnalyzer == AccessorCall(get_facial_analyzer(AccessorState))

SingletonNext ==
    \/ GetLinebotService
    \/ GetAnalysisService
    \/ GetFacialAnalyzer

SpecSingleton == SingletonInit /\ [][SingletonNext]_vars

---------------------------------------------------------------------------
(* The LINE webhook: line_webhook of api/v1/linebot.py, and handle_webhook  *)
(* and _handle_events of LineBotService.  An exception is a record of its   *)
(* class and what it carries; every class here derives from Exception.     *)

MaxEvents == 2

HTTPException(status_code, detail) ==
    [class |-> "HTTPException", status_code |-> status_code, detail |-> detail]

LineBotError(message) ==
    [class |-> "LineBotError", status_code |-> 0, detail |-> message]

InvalidSignatureError ==
    [class |-> "InvalidSignatureError", status_code |-> 0, detail |-> ""]

\* an exception of any other class, e.g. of json.loads on a malformed body
OtherException == [class |-> "Exception", status_code |-> 0, detail |-> "error"]

NoException == [class |-> "", status_code |-> 0, detail |-> ""]

NoResponse == [status_code |-> 0, detail |-> "", status |-> ""]

\* FastAPI answers a raised HTTPException with its status code and detail.
ErrorResponse(exc) ==
    [status_code |-> exc.status_code, detail |-> exc.detail, status |-> ""]

\* return {"status": "success", "message": "Events processed"}
EventsProcessed == [status_code |-> 200, detail |-> "", status |-> "success"]

\* An event of a batch: its type, whether the body of its handler fails, and
\* whether the error reply the handler then pushes fails as well.
Events ==
    [kind : {"text", "image"}, fails : {FALSE}, error_reply_fails : {FALSE}]
    \cup [kind : {"text", "image"}, fails : {TRUE}, error_reply_fails : BOOLEAN]
    \cup [kind : {"follow", "unfollow"}, fails : BOOLEAN, error_reply_fails : {FALSE}]
    \cup [kind : {"other"}, fails : {FALSE}, error_reply_fails : {FALSE}]

EventBatches == UNION {[1..n -> Events] : n \in 0..MaxEvents}

\* Whether the handler of an event lets an exception out.  The handlers of
\* text and image messages catch the failure and push an error message from
\* inside the except block, so a failure of that push escapes; the handlers
\* of follow and unfollow log and swallow; other events have no handler.
handler_raises(event) ==
    /\ event.kind \in {"text", "image"}
    /\ event.fails
    /\ event.error_reply_fails

\* The try/except inside the for loop of _handle_events: the exception of
\* one event is logged and the loop goes on.
handle_events_step_propagating(w, raised) ==
    IF raised
    THEN [w EXCEPT !.pc = "handle_webhook_except", !.raised = OtherException]
    ELSE [w EXCEPT !.position = @ + 1]

handle_events_step(w, raised) == [w EXCEPT !.position = @ + 1]

\* self.parser.parse(body, signature) of the LINE SDK: the signature is
\* checked first, then the body is decoded.
parser_parse(body, signature) ==
    IF signature # "valid" THEN InvalidSignatureError
    ELSE IF body = "malformed" THEN OtherException
    ELSE NoException

\* The except clauses of handle_webhook.
handle_webhook_except(exc) ==
    IF exc.class = "InvalidSignatureError"
    THEN LineBotError("Invalid signature")
    ELSE LineBotError("Webhook handling failed")

\* The except clauses of line_webhook: LineBotError first, then Exception,
\* which is every other class, HTTPException included.
line_webhook_except(exc) ==
    IF exc.class = "LineBotError"
    THEN HTTPException(400, exc.detail)
    ELSE HTTPException(500, "Webhook processing failed")

WebhookInit ==
    /\ webhook \in [pc : {"configured"}, configured : BOOLEAN,
                    signature : {"", "valid", "invalid"},
                    body : {"json", "malformed"}, events : EventBatches,
                    position : {1}, raised : {NoException}, response : {NoResponse}]
    /\ handled = <<>>
    /\ SingletonIdle /\ UploadIdle /\ ChatIdle
    /\ analyzer = AnalyzerInstance
    /\ calls = <<>>
    /\ frames = <<>>
    /\ temp_files = {}
    /\ data = EmptyRecord
    /\ extracted = NothingExtracted
    /\ total_landmarks = 0
    /\ landmark_set = <<>>
    /\ image_shape = <<0, 0>>
    /\ pc = "idle"
    /\ analysis_results = EmptyRecord
    /\ overall_score = EmptyRecord
    /\ beauty_advice = <<>>
    /\ outcome = NoOutcome

\* What the steps of the webhook leave alone.
WebhookFrame ==
    UNCHANGED <<landmark_set, total_landmarks, image_shape, pc, analysis_results,
                overall_score, beauty_advice, outcome, service_vars, extract_vars,
                singleton_vars, upload_vars, chat_vars>>

\* if not settings.line_channel_access_token or not settings.line_channel_secret:
\* raised before the try, so FastAPI answers 501
CheckConfigured ==
    /\ webhook.pc = "configured"
    /\ webhook' =
         IF webhook.configured
         THEN [webhook EXCEPT !.pc = "signature"]
         ELSE [webhook EXCEPT !.pc = "done",
                 !.response = ErrorResponse(HTTPException(501, "LINE Bot not configured"))]
    /\ UNCHANGED handled
    /\ WebhookFrame

\* signature = request.headers.get("X-Line-Signature", ""); if not signature:
\* raise HTTPException(400, ...), inside the try
ReadSignature ==
    /\ webhook.pc = "signature"
    /\ webhook' =
         IF webhook.signature = ""
         THEN [webhook EXCEPT !.pc = "line_webhook_except",
                 !.raised = HTTPException(400, "Missing X-Line-Signature header")]
         ELSE [webhook EXCEPT !.pc = "parse"]
    /\ UNCHANGED handled
    /\ WebhookFrame

\* handle_webhook: events = self.parser.parse(body, signature)
ParseEvents ==
    /\ webhook.pc = "parse"
    /\ LET exc == parser_parse(webhook.body, webhook.signature)
       IN  webhook' =
             IF exc = NoException
             THEN [webhook EXCEPT !.pc = "events"]
             ELSE [webhook EXCEPT !.pc = "handle_webhook_except", !.raised = exc]
    /\ UNCHANGED handled
    /\ WebhookFrame

\* _handle_events: one turn of the for loop
HandleEvent ==
    /\ webhook.pc = "events"
    /\ webhook.position <= Len(webhook.events)
    /\ handled' = Append(handled, webhook.position)
    /\ webhook' = handle_events_step(webhook,
                                     handler_raises(webhook.events[webhook.position]))
    /\ WebhookFrame

\* the loop is over: handle_webhook returns and line_webhook returns its result
ReturnEventsProcessed ==
    /\ webhook.pc = "events"
    /\ webhook.position > Len(webhook.events)
    /\ webhook' = [webhook EXCEPT !.pc = "done", !.response = EventsProcessed]
    /\ UNCHANGED handled
    /\ WebhookFrame

\* an except clause of handle_webhook raises LineBotError
HandleWebhookExcept ==
    /\ webhook.pc = "handle_webhook_except"
    /\ webhook' = [webhook EXCEPT !.pc = "line_webhook_except",
                     !.raised = handle_webhook_except(webhook.raised)]
    /\ UNCHANGED handled
    /\ WebhookFrame

\* an except clause of line_webhook raises the HTTPException FastAPI answers with
LineWebhookExcept ==
    /\ webhook.pc = "line_webhook_except"
    /\ webhook' = [webhook EXCEPT !.pc = "done", !.raised = NoException,
                     !.response = ErrorResponse(line_webhook_except(webhook.raised))]
    /\ UNCHANGED handled
    /\ WebhookFrame

WebhookNext ==
    \/ CheckConfigured
    \/ ReadSignature
    \/ ParseEvents
    \/ HandleEvent
    \/ ReturnEventsProcessed
    \/ HandleWebhookExcept
    \/ LineWebhookExcept

SpecWebhook == WebhookInit /\ [][WebhookNext]_vars

---------------------------------------------------------------------------
(* The upload endpoint analyze_face_image of api/v1/analysis.py and         *)
(* AnalysisService.analyze_face_image.  An error is a record of its class,  *)
(* its message, its stage and its cause; the message f"{prefix}: {str(e)}"   *)
(* is the sequence of its parts.  The rows of analysis_results are kept     *)
(* with their id and analysis_type; a uuid4() is the number of the request. *)

MaxRequests == 2

\* raise cls(message, stage=stage) from cause; cause is <<>> or <<e>>
Raised(class, message, stage, cause) ==
    [class |-> class, message |-> message, stage |-> stage, cause |-> cause]

\* f"{prefix}: {str(e)}", raised from e
Wrapped(class, prefix, stage, e) == Raised(class, <<prefix>> \o e.message, stage, <<e>>)

\* The uploaded files: UploadFile.filename, content_type, whether the data
\* is above max_size, and what the image shows.
UploadedFiles ==
    [has_filename : BOOLEAN, content_type : {"image/png", "text/plain"},
     too_large : BOOLEAN, image : {"face", "no_face", "unreadable"}]

\* The checks of the endpoint before the service is called: <<>> or the error.
validate_file(file) ==
    IF ~file.has_filename
    THEN <<Raised("ValidationError", <<"No filename provided">>, "", <<>>)>>
    ELSE IF file.content_type # "image/png"
    THEN <<Raised("ValidationError", <<"File must be an image">>, "", <<>>)>>
    ELSE IF file.too_large
    THEN <<Raised("FileUploadError", <<"File too large. Maximum size is 10MB">>,
                  "", <<>>)>>
    ELSE <<>>

\* What analyze_image_async gives for an image: <<>> for a result, or the
\* error _analyze_image_sync raises, which wraps the one of _process_image
\* or of _perform_comprehensive_analysis.
analyze_image_async(image, result_validates) ==
    IF image = "unreadable"
    THEN <<Wrapped("AnalysisError", "Failed to analyze image", "image_processing",
                   Raised("AnalysisError", <<"Could not read image file">>,
                          "image_loading", <<>>))>>
    ELSE IF image = "no_face"
    THEN <<Wrapped("AnalysisError", "Failed to analyze image", "image_processing",
                   Raised("AnalysisError", <<"No face detected in image">>,
                          "face_detection", <<>>))>>
    ELSE IF ~result_validates
    THEN <<Wrapped("AnalysisError", "Failed to analyze image", "image_processing",
                   Raised("AnalysisError", <<"Comprehensive analysis failed">>,
                          "comprehensive_analysis", <<>>))>>
    ELSE <<>>

\* self.supabase.table("analysis_results").insert(row).execute(): id is the
\* PRIMARY KEY of the table, so a row whose id is taken is refused; the
\* database can also fail for reasons of its own.
insert_without_primary_key(table, row, database_up) == database_up

insert(table, row, database_up) ==
    /\ database_up
    /\ \A k \in 1..Len(table) : table[k].id # row.id

\* The except block of _store_analysis_failure logs and does not raise: the
\* error analyze_face_image goes on with is the one it caught.
store_analysis_failure_raising(e, accepted) ==
    IF accepted
    THEN e
    ELSE Wrapped("DatabaseError", "Failed to store analysis failure", "", e)

store_analysis_failure(e, accepted) == e

\* The except clauses of the endpoint.
analyze_face_image_except(e) ==
    IF e.class \in {"ValidationError", "FileUploadError", "AnalysisError"}
    THEN [status_code |-> 400, detail |-> e.message, body |-> ""]
    ELSE [status_code |-> 500, detail |-> <<"Internal server error during analysis">>,
          body |-> ""]

NewRequest(id, file) ==
    [pc |-> "validate", file |-> file, analysis_id |-> id, steps |-> <<>>,
     first_error |-> <<>>, raised |-> <<>>,
     response |-> [status_code |-> 0, detail |-> <<>>, body |-> ""]]

UploadInit ==
    /\ request \in {NewRequest(1, file) : file \in UploadedFiles}
    /\ analysis_results_table = <<>>
    /\ insert_attempts = <<>>
    /\ SingletonIdle /\ WebhookIdle /\ ChatIdle
    /\ analyzer = AnalyzerInstance
    /\ calls = <<>>
    /\ frames = <<>>
    /\ temp_files = {}
    /\ data = EmptyRecord
    /\ extracted = NothingExtracted
    /\ total_landmarks = 0
    /\ landmark_set = <<>>
    /\ image_shape = <<0, 0>>
    /\ pc = "idle"
    /\ analysis_results = EmptyRecord
    /\ overall_score = EmptyRecord
    /\ beauty_advice = <<>>
    /\ outcome = NoOutcome

\* What the steps of the upload request leave alone.
UploadFrame ==
    UNCHANGED <<landmark_set, total_landmarks, image_shape, pc, analysis_results,
                overall_score, beauty_advice, outcome, service_vars, extract_vars,
                singleton_vars, webhook_vars, chat_vars>>

\* A step of analyze_face_image of the service raised e: the except block
\* of line 91 is next.
Failed(step, e) ==
    [request EXCEPT !.pc = "service_except", !.steps = Append(@, step),
                    !.first_error = <<e>>]

\* the checks of the endpoint, lines 46-66
ValidateFile ==
    /\ request.pc = "validate"
    /\ LET e == validate_file(request.file)
       IN  request' = IF e = <<>>
                      THEN [request EXCEPT !.pc = "upload"]
                      ELSE [request EXCEPT !.pc = "endpoint_except", !.raised = e]
    /\ UNCHANGED <<analysis_results_table, insert_attempts>>
    /\ UploadFrame

\* Step 1: image_url = await self.storage_service.upload_image(...)
UploadImage ==
    /\ request.pc = "upload"
    /\ \E uploaded \in BOOLEAN :
          request' =
            IF uploaded
            THEN [request EXCEPT !.pc = "analysis", !.steps = Append(@, "upload")]
            ELSE Failed("upload",
                        Raised("FileUploadError", <<"Failed to upload image">>, "", <<>>))
    /\ UNCHANGED <<analysis_results_table, insert_attempts>>
    /\ UploadFrame

\* Step 2: analysis_result = await self.analyzer.analyze_image_async(...)
AnalyzeImage ==
    /\ request.pc = "analysis"
    /\ \E result_validates \in BOOLEAN :
          LET e == analyze_image_async(request.file.image, result_validates)
          IN  request' =
                IF e = <<>>
                THEN [request EXCEPT !.pc = "store_result",
                                     !.steps = Append(@, "analysis")]
                ELSE Failed("analysis", e[1])
    /\ UNCHANGED <<analysis_results_table, insert_attempts>>
    /\ UploadFrame

\* Step 5: _store_analysis_result inserts the row and returns response.data[0];
\* then the AnalysisResponse is built from the stored record.  Either of the
\* two can raise after the row was inserted.
StoreAnalysisResult ==
    /\ request.pc = "store_result"
    /\ \E database_up \in BOOLEAN, record_returned \in BOOLEAN :
          LET row == [id |-> request.analysis_id, analysis_type |-> "full"]
              accepted == insert(analysis_results_table, row, database_up)
          IN  /\ insert_attempts' = Append(insert_attempts,
                                           [row |-> row, accepted |-> accepted])
              /\ analysis_results_table' =
                    IF accepted THEN Append(analysis_results_table, row)
                    ELSE analysis_results_table
              /\ request' =
                    IF accepted /\ record_returned
                    THEN [request EXCEPT !.pc = "done",
                            !.steps = Append(@, "store_result"),
                            !.response = [status_code |-> 201, detail |-> <<>>,
                                          body |-> "completed"]]
                    ELSE IF accepted
                    THEN Failed("store_result",
                                Raised("KeyError", <<"created_at">>, "", <<>>))
                    ELSE Failed("store_result",
                                Raised("DatabaseError",
                                       <<"Failed to store analysis result">>, "", <<>>))
    /\ UploadFrame

\* except Exception as e: await self._store_analysis_failure(...); raise
\* AnalysisError(f"Face analysis failed: {str(e)}", stage="analysis_service") from e
StoreFailureAndRaise ==
    /\ request.pc = "service_except"
    /\ \E database_up \in BOOLEAN :
          LET row == [id |-> request.analysis_id, analysis_type |-> "failed"]
              accepted == insert(analysis_results_table, row, database_up)
              e == store_analysis_failure(request.first_error[1], accepted)
          IN  /\ insert_attempts' = Append(insert_attempts,
                                           [row |-> row, accepted |-> accepted])
              /\ analysis_results_table' =
                    IF accepted THEN Append(analysis_results_table, row)
                    ELSE analysis_results_table
              /\ request' =
                    [request EXCEPT !.pc = "endpoint_except",
                       !.steps = Append(@, "store_failure"),
                       !.raised = <<Wrapped("AnalysisError", "Face analysis failed",
                                            "analysis_service", e)>>]
    /\ UploadFrame

\* the except clauses of the endpoint raise the HTTPException FastAPI answers with
EndpointExcept ==
    /\ request.pc = "endpoint_except"
    /\ request' = [request EXCEPT !.pc = "done",
                     !.response = analyze_face_image_except(request.raised[1])]
    /\ UNCHANGED <<analysis_results_table, insert_attempts>>
    /\ UploadFrame

\* the next upload arrives; its analysis_id = uuid4() is a fresh one
NextRequest ==
    /\ request.pc = "done"
    /\ request.analysis_id < MaxRequests
    /\ \E file \in UploadedFiles :
          request' = NewRequest(request.analysis_id + 1, file)
    /\ UNCHANGED <<analysis_results_table, insert_attempts>>
    /\ UploadFrame

UploadNext ==
    \/ ValidateFile
    \/ UploadImage
    \/ AnalyzeImage
    \/ StoreAnalysisResult
    \/ StoreFailureAndRaise
    \/ EndpointExcept
    \/ NextRequest

SpecUpload == UploadInit /\ [][UploadNext]_vars

---------------------------------------------------------------------------
(* BeautyChatbotService.send_message and create_chat_session, and           *)
(* LineBotService._handle_chat_message that calls them.  A row of           *)
(* chat_messages is kept with its session, its role and its content; the   *)
(* content of a message is the number of the row it became, and the rows   *)
(* are in the order of created_at.                                         *)

MaxMessages == 21

history_limit == 20
history_window == 10

\* rows[:n]
Limit(rows, n) == SubSeq(rows, 1, IF Len(rows) < n THEN Len(rows) ELSE n)

\* rows[-n:]
LastOf(rows, n) == SubSeq(rows, IF Len(rows) > n THEN Len(rows) - n + 1 ELSE 1, Len(rows))

\* .eq("session_id", str(session_id)).order("created_at", desc=False)
SessionMessages(rows, session_id) ==
    SelectSeq(rows, LAMBDA row : row.session_id = session_id)

\* _get_conversation_history: the rows of the session by created_at
\* ascending, .limit(20); [] when the query fails
get_conversation_history(rows, session_id, query_ok) ==
    IF query_ok THEN Limit(SessionMessages(rows, session_id), history_limit) ELSE <<>>

\* _generate_ai_response: messages.extend(conversation_history[-10:])
history_for_model(conversation_history) == LastOf(conversation_history, history_window)

\* CHECK (context_type IN (...)) of public.chat_sessions
chat_sessions_accepts(context_type) ==
    context_type \in {"general", "analysis_review", "beauty_advice", "improvement_plan"}

\* Where send_message goes after a step: the statements are in one try
\* block, so a step that raised ends the call in its except clause.
send_message_next_unchecked(step, ok) ==
    IF ~ok /\ step # "get_session" THEN "except"
    ELSE CASE step = "get_session" -> "history"
           [] step = "history" -> "store_user"
           [] step = "store_user" -> "ai"
           [] step = "ai" -> "store_assistant"
           [] step = "store_assistant" -> "return"

send_message_next(step, ok) ==
    IF ~ok THEN "except"
    ELSE CASE step = "get_session" -> "history"
           [] step = "history" -> "store_user"
           [] step = "store_user" -> "ai"
           [] step = "ai" -> "store_assistant"
           [] step = "store_assistant" -> "return"

\* The session that exists before the operation, and the one it creates.
existing_session == 1
created_session == 2

\* The rows of the existing session: the user and the assistant in turn.
StoredMessages(n) ==
    [k \in 1..n |-> [session_id |-> existing_session,
                     role |-> IF k % 2 = 1 THEN "user" ELSE "assistant",
                     content |-> k]]

\* The frame of an operation on entry.
ChatFrame(op, start, session_id, session_found, context_type, initial_message) ==
    [op |-> op, pc |-> start, via |-> "", session_id |-> session_id,
     session_found |-> session_found, context_type |-> context_type,
     initial_message |-> initial_message, session_insert |-> "",
     entry |-> 0, events |-> <<>>, conversation_history |-> <<>>,
     result |-> "", replies |-> <<>>]

ChatOperations ==
    {ChatFrame("send_message", "get_session", existing_session, found, "", TRUE) :
        found \in BOOLEAN}
    \cup {ChatFrame("create_chat_session", "insert_session", created_session, FALSE,
                    context_type, initial_message) :
            context_type \in {"general", "line_chat"}, initial_message \in BOOLEAN}
    \cup {ChatFrame("handle_chat_message", "get_or_create_user", created_session, FALSE,
                    "line_chat", initial_message) : initial_message \in BOOLEAN}

ChatInit ==
    /\ \E n \in 0..MaxMessages, frame \in ChatOperations :
          /\ chat_messages = StoredMessages(n)
          /\ chat = [frame EXCEPT !.entry = n]
    /\ ai_requests = <<>>
    /\ SingletonIdle /\ WebhookIdle /\ UploadIdle
    /\ analyzer = AnalyzerInstance
    /\ calls = <<>>
    /\ frames = <<>>
    /\ temp_files = {}
    /\ data = EmptyRecord
    /\ extracted = NothingExtracted
    /\ total_landmarks = 0
    /\ landmark_set = <<>>
    /\ image_shape = <<0, 0>>
    /\ pc = "idle"
    /\ analysis_results = EmptyRecord
    /\ overall_score = EmptyRecord
    /\ beauty_advice = <<>>
    /\ outcome = NoOutcome

\* What the steps of a chat operation leave alone.
ChatUnchanged ==
    UNCHANGED <<landmark_set, total_landmarks, image_shape, pc, analysis_results,
                overall_score, beauty_advice, outcome, service_vars, extract_vars,
                singleton_vars, webhook_vars, upload_vars>>

\* send_message is entered by caller via for the session of the frame.
EnterSendMessage(frame, via) ==
    [frame EXCEPT !.pc = "get_session", !.via = via, !.entry = Len(chat_messages),
                  !.events = <<>>, !.conversation_history = <<>>, !.result = ""]

\* self._store_message: the row a message becomes
NewMessage(role) ==
    [session_id |-> chat.session_id, role |-> role, content |-> Len(chat_messages) + 1]

\* _handle_chat_message: bot_user = await self._get_or_create_user(user_id)
GetOrCreateUser ==
    /\ chat.pc = "get_or_create_user"
    /\ \E user_found \in BOOLEAN :
          chat' = IF user_found
                  THEN [chat EXCEPT !.pc = "insert_session"]
                  ELSE [chat EXCEPT !.pc = "handler_except"]
    /\ UNCHANGED <<chat_messages, ai_requests>>
    /\ ChatUnchanged

\* create_chat_session: the insert into chat_sessions, then
\* if initial_message: await self.send_message(...); a failure of either ends
\* in ChatbotError("Failed to create chat session")
InsertSession ==
    /\ chat.pc = "insert_session"
    /\ \E database_up \in BOOLEAN :
          LET accepted == database_up /\ chat_sessions_accepts(chat.context_type)
              inserted == [chat EXCEPT !.session_found = TRUE,
                                       !.session_insert = "accepted"]
          IN  chat' =
                IF ~accepted
                THEN [chat EXCEPT !.pc = "create_except",
                        !.session_insert = IF database_up THEN "refused" ELSE "down"]
                ELSE IF chat.initial_message
                THEN EnterSendMessage(inserted, "create_chat_session")
                ELSE [inserted EXCEPT !.pc = "session_created"]
    /\ UNCHANGED <<chat_messages, ai_requests>>
    /\ ChatUnchanged

\* session = await self._get_session(session_id, user_id)
GetSession ==
    /\ chat.pc = "get_session"
    /\ \E database_up \in BOOLEAN :
          LET found == chat.session_found /\ database_up
          IN  chat' = [chat EXCEPT
                         !.pc = send_message_next("get_session", found),
                         !.events = Append(@, IF found THEN "session_found"
                                              ELSE "session_not_found")]
    /\ UNCHANGED <<chat_messages, ai_requests>>
    /\ ChatUnchanged

\* conversation_history = await self._get_conversation_history(session_id);
\* analysis_context = await self._get_analysis_context(...); neither raises
GetConversationHistory ==
    /\ chat.pc = "history"
    /\ \E query_ok \in BOOLEAN :
          chat' = [chat EXCEPT
                     !.pc = send_message_next("history", TRUE),
                     !.events = Append(@, IF query_ok THEN "history" ELSE "no_history"),
                     !.conversation_history =
                         get_conversation_history(chat_messages, chat.session_id,
                                                  query_ok)]
    /\ UNCHANGED <<chat_messages, ai_requests>>
    /\ ChatUnchanged

\* user_message_id = await self._store_message(role="user", ...)
StoreUserMessage ==
    /\ chat.pc = "store_user"
    /\ \E database_up \in BOOLEAN :
          /\ chat' = [chat EXCEPT
                        !.pc = send_message_next("store_user", database_up),
                        !.events = IF database_up THEN Append(@, "store_user") ELSE @]
          /\ chat_messages' = IF database_up
                              THEN Append(chat_messages, NewMessage("user"))
                              ELSE chat_messages
    /\ UNCHANGED ai_requests
    /\ ChatUnchanged

\* ai_response = await self._generate_ai_response(...)
GenerateAIResponse ==
    /\ chat.pc = "ai"
    /\ \E generated \in BOOLEAN :
          chat' = [chat EXCEPT
                     !.pc = send_message_next("ai", generated),
                     !.events = IF generated
                                THEN @ \o <<"ai_request", "ai_response">>
                                ELSE Append(@, "ai_request")]
    /\ ai_requests' =
          Append(ai_requests,
                 [session_id |-> chat.session_id,
                  fetched |-> chat.events[Len(chat.events) - 1] = "history",
                  session_before |->
                      SubSeq(SessionMessages(chat_messages, chat.session_id), 1,
                             Len(SessionMessages(chat_messages, chat.session_id)) - 1),
                  history |-> history_for_model(chat.conversation_history)])
    /\ UNCHANGED chat_messages
    /\ ChatUnchanged

\* ai_message_id = await self._store_message(role="assistant", ...)
StoreAssistantMessage ==
    /\ chat.pc = "store_assistant"
    /\ \E database_up \in BOOLEAN :
          /\ chat' = [chat EXCEPT
                        !.pc = send_message_next("store_assistant", database_up),
                        !.events = IF database_up THEN Append(@, "store_assistant")
                                   ELSE @]
          /\ chat_messages' = IF database_up
                              THEN Append(chat_messages, NewMessage("assistant"))
                              ELSE chat_messages
    /\ UNCHANGED ai_requests
    /\ ChatUnchanged

\* send_message returns its ChatResponse to its caller; _handle_chat_message
\* pushes it to the LINE user with _send_chat_response
ReturnChatResponse ==
    /\ chat.pc = "return"
    /\ chat' = [chat EXCEPT
                  !.result = "ChatResponse",
                  !.pc = IF chat.via = "create_chat_session" THEN "session_created"
                         ELSE "done",
                  !.replies = IF chat.via = "handle_chat_message"
                              THEN Append(@, "chat_response") ELSE @]
    /\ UNCHANGED <<chat_messages, ai_requests>>
    /\ ChatUnchanged

\* except Exception as e: raise ChatbotError("Failed to process message: ...")
SendMessageExcept ==
    /\ chat.pc = "except"
    /\ chat' = [chat EXCEPT
                  !.result = "ChatbotError",
                  !.pc = CASE chat.via = "create_chat_session" -> "create_except"
                           [] chat.via = "handle_chat_message" -> "handler_except"
                           [] OTHER -> "done"]
    /\ UNCHANGED <<chat_messages, ai_requests>>
    /\ ChatUnchanged

\* create_chat_session returns the session; _handle_chat_message goes on
\* with its own send_message of the same text
SessionCreated ==
    /\ chat.pc = "session_created"
    /\ chat' = IF chat.op = "handle_chat_message"
               THEN EnterSendMessage(chat, "handle_chat_message")
               ELSE [chat EXCEPT !.pc = "done"]
    /\ UNCHANGED <<chat_messages, ai_requests>>
    /\ ChatUnchanged

\* the except clause of create_chat_session raises ChatbotError
CreateSessionExcept ==
    /\ chat.pc = "create_except"
    /\ chat' = [chat EXCEPT
                  !.result = "ChatbotError",
                  !.pc = IF chat.op = "handle_chat_message" THEN "handler_except"
                         ELSE "done"]
    /\ UNCHANGED <<chat_messages, ai_requests>>
    /\ ChatUnchanged

\* except Exception: await self._send_error_message(user_id)
HandlerExcept ==
    /\ chat.pc = "handler_except"
    /\ chat' = [chat EXCEPT !.pc = "done", !.replies = Append(@, "error_message")]
    /\ UNCHANGED <<chat_messages, ai_requests>>
    /\ ChatUnchanged

ChatNext ==
    \/ GetOrCreateUser
    \/ InsertSession
    \/ GetSession
    \/ GetConversationHistory
    \/ StoreUserMessage
    \/ GenerateAIResponse
    \/ StoreAssistantMessage
    \/ ReturnChatResponse
    \/ SendMessageExcept
    \/ SessionCreated
    \/ CreateSessionExcept
    \/ HandlerExcept

SpecChat == ChatInit /\ [][ChatNext]_vars

---------------------------------------------------------------------------
(* Properties.  They read the inputs and the records of the state and      *)
(* restate the arithmetic of each claim on them.                           *)

HasAngle == "face_angle" \in DOMAIN analysis_results
HasEline == "eline" \in DOMAIN analysis_results
HasProportions == "proportions" \in DOMAIN analysis_results

\* leftDist, rightDist and their sum, in grid steps, read off the input.
InL == Abs(landmark_set[1][1] - landmark_set[234][1])
InR == Abs(landmark_set[1][1] - landmark_set[454][1])
InS == InL + InR

\* The square of the pixel distance between the two cheeks of the input.
InFaceWidth2 ==
    LET lc == landmark_set[234]
        rc == landmark_set[454]
        dx == (rc[1] * image_shape[2]) \div Grid - (lc[1] * image_shape[2]) \div Grid
        dy == (rc[2] * image_shape[1]) \div Grid - (lc[2] * image_shape[1]) \div Grid
    IN  dx * dx + dy * dy

\* The label the ladder on r = leftDist / (leftDist + rightDist) gives.
LadderAngle ==
    IF 4 * InS <= 10 * InL /\ 10 * InL <= 6 * InS THEN "frontal"
    ELSE IF 10 * InL < 3 * InS THEN "facing-right"
    ELSE IF 10 * InL > 7 * InS THEN "facing-left"
    ELSE "oblique"

\* 1 - |r - 0.5| * 2 = (S - |L - R|) / S, times 100 S.
FrontalConfidenceTimes100S == 100 * (InS - Abs(InL - InR))

\* C1 as stated: when leftDist and rightDist are not both zero, the record's
\* angle is the ladder's label, and its confidence is exactly
\* 1 - |r - 0.5| * 2 for a frontal face, 0.7 for facing-right and
\* facing-left, 0.5 for oblique.
C1_ExactConfidence ==
    (HasAngle /\ InS > 0) =>
        LET fa == analysis_results.face_angle
        IN  /\ fa.angle = LadderAngle
            /\ fa.angle = "frontal" => fa.confidence * InS = FrontalConfidenceTimes100S
            /\ fa.angle \in {"facing-right", "facing-left"} => fa.confidence = 70
            /\ fa.angle = "oblique" => fa.confidence = 50

\* C1 amended: when leftDist and rightDist are not both zero, the record's
\* angle is the ladder's label (0.4 <= r <= 0.6 frontal, r < 0.3
\* facing-right, r > 0.7 facing-left, else oblique), and its confidence is
\* 1 - |r - 0.5| * 2 rounded to two decimals for a frontal face (within half
\* a hundredth of the exact value), 0.7 for facing-right and facing-left,
\* 0.5 for oblique.
C1_LadderRoundedConfidence ==
    (HasAngle /\ InS > 0) =>
        LET fa == analysis_results.face_angle
        IN  /\ fa.angle = LadderAngle
            /\ fa.angle = "frontal" =>
                 2 * Abs(fa.confidence * InS - FrontalConfidenceTimes100S) <= InS
            /\ fa.angle \in {"facing-right", "facing-left"} => fa.confidence = 70
            /\ fa.angle = "oblique" => fa.confidence = 50
            /\ 10 * InL = 4 * InS => fa.angle = "frontal"
            /\ 10 * InL = 6 * InS => fa.angle = "frontal"
            /\ (10 * InL < 4 * InS /\ 10 * InL >= 3 * InS) => fa.angle = "oblique"

\* C1 witness: a face with r = 0.4 exactly has been classified frontal, with
\* confidence 0.8.
C1_Witness ==
    /\ HasAngle
    /\ InS > 0
    /\ 10 * InL = 4 * InS
    /\ analysis_results.face_angle.angle = "frontal"
    /\ analysis_results.face_angle.confidence = 80

\* C2: when both horizontal distances are zero the face-angle record is
\* label "unknown", confidence 0.0, suitable_for_analysis false, and it holds
\* no ratio; a record that holds a ratio was computed with a non-zero
\* divisor leftDist + rightDist.
C2_UnknownBeforeRatio ==
    HasAngle =>
        LET fa == analysis_results.face_angle
        IN  /\ (InL = 0 /\ InR = 0) =>
                 /\ DOMAIN fa = {"angle", "confidence", "suitable_for_analysis"}
                 /\ fa.angle = "unknown"
                 /\ fa.confidence = 0
                 /\ fa.suitable_for_analysis = FALSE
            /\ "ratio" \in DOMAIN fa => InS > 0

\* C2 witness: the nose tip and both cheeks share one x and the face angle
\* has been detected.
C2_Witness ==
    /\ HasAngle
    /\ InL = 0
    /\ InR = 0
    /\ analysis_results.face_angle.angle = "unknown"

\* C3 as stated: suitable_for_analysis is true exactly when the confidence
\* is > 0.6; every finished analysis whose face angle is unsuitable has
\* returned a result whose angle_warning names the angle and the confidence,
\* and every returned result of a suitable face angle has angle_warning None.
\* (Read on the analyses whose face width is not zero: those of zero width
\* are the case of C7.)
C3_UnsuitableCarriesWarning ==
    HasAngle =>
        LET fa == analysis_results.face_angle
        IN  /\ fa.suitable_for_analysis <=> fa.confidence > 60
            /\ (pc = "done" /\ ~fa.suitable_for_analysis /\ InFaceWidth2 # 0) =>
                 /\ outcome.kind = "result"
                 /\ outcome.value.angle_warning =
                      [is_none |-> FALSE, angle |-> fa.angle,
                       confidence |-> fa.confidence]
            /\ (outcome.kind = "result" /\ fa.suitable_for_analysis) =>
                 outcome.value.angle_warning.is_none

\* The five status labels of the E-line ladder.
ElineStatuses ==
    {"ideal", "good", "standard", "upper-lip-forward", "lower-lip-forward"}

\* C4 as stated: the status follows the ladder on m = max(|upperDist|,
\* |lowerDist|): m <= 2.0 ideal, else m <= eline_tolerance good, else
\* m <= 7.0 standard, else upper-lip-forward when the upper-lip distance is
\* the larger and lower-lip-forward when the lower-lip distance is the
\* larger; and each of the five labels is the status of some input.
C4_LadderAllFiveLabels ==
    /\ HasEline =>
         LET e == analysis_results.eline
             u == e.upper_lip_distance
             l == e.lower_lip_distance
             m == IF DistGreater(l, u) THEN l ELSE u
         IN  /\ e.status = "ideal" <=> DistLeq(m, 2)
             /\ e.status = "good" <=> (~DistLeq(m, 2) /\ DistLeq(m, eline_tolerance))
             /\ e.status = "standard" <=>
                  (~DistLeq(m, 2) /\ ~DistLeq(m, eline_tolerance) /\ DistLeq(m, 7))
             /\ (~DistLeq(m, 7) /\ DistGreater(u, l)) => e.status = "upper-lip-forward"
             /\ (~DistLeq(m, 7) /\ DistGreater(l, u)) => e.status = "lower-lip-forward"
    /\ \A label \in ElineStatuses :
         \E lms \in FullLandmarkSets, shape \in ImageShapes :
            analyze_eline(lms, shape).status = label

\* The squares of face_height and face_width of a measured proportion.
PropH2 == analysis_results.proportions.aspect_ratio[1]
PropW2 == analysis_results.proportions.aspect_ratio[2]
Measured == HasProportions /\ "aspect_ratio" \in DOMAIN analysis_results.proportions

\* The label of each ideal ratio.
RatioLabel(c) ==
    IF c = 1618 THEN "golden" ELSE IF c = 1414 THEN "silver" ELSE "japanese"

\* |aspectRatio - a| = |aspectRatio - b|
SameDeviation(a, b) == DiffLeq(PropH2, PropW2, a, b) /\ DiffLeq(PropH2, PropW2, b, a)

\* C5: the reported ideal_ratio is one of 1.618, 1.414, 1.46 and no other of
\* them is closer to aspectRatio; closest_ratio is its label; silver is
\* chosen only when golden is strictly farther, and population-ideal only
\* when golden and silver are both strictly farther.
C5_ClosestRatioPrecedence ==
    Measured =>
        LET p == analysis_results.proportions
        IN  /\ p.ideal_ratio \in {1618, 1414, 1460}
            /\ p.closest_ratio = RatioLabel(p.ideal_ratio)
            /\ \A c \in {1618, 1414, 1460} : DiffLeq(PropH2, PropW2, p.ideal_ratio, c)
            /\ p.ideal_ratio = 1414 => ~SameDeviation(1414, 1618)
            /\ p.ideal_ratio = 1460 =>
                 (~SameDeviation(1460, 1618) /\ ~SameDeviation(1460, 1414))

\* C5 witness: aspectRatio is 1.539, as far from golden as from
\* population-ideal, and golden has been chosen.
C5_Witness ==
    /\ Measured
    /\ SameDeviation(1618, 1460)
    /\ analysis_results.proportions.closest_ratio = "golden"
    /\ analysis_results.proportions.ideal_ratio = 1618

\* d < t / 1000 for the deviation d of aspectRatio from the reported ideal
DeviationBelow(t) == DiffLess(PropH2, PropW2, analysis_results.proportions.ideal_ratio, t)

\* C6: the evaluation is excellent exactly when the minimum deviation d is
\* < 0.15, good exactly when 0.15 <= d < 0.25, standard exactly when
\* 0.25 <= d < 0.35, and individual exactly when d >= 0.35.
C6_EvaluationTiers ==
    Measured =>
        LET e == analysis_results.proportions.evaluation
        IN  /\ e \in {"excellent", "good", "standard", "individual"}
            /\ e = "excellent" <=> DeviationBelow(150)
            /\ e = "good" <=> (~DeviationBelow(150) /\ DeviationBelow(250))
            /\ e = "standard" <=> (~DeviationBelow(250) /\ DeviationBelow(350))
            /\ e = "individual" <=> ~DeviationBelow(350)

\* C6 witness: the deviation from the chosen ideal is exactly 0.15 and the
\* evaluation is good.
C6_Witness ==
    /\ Measured
    /\ ~DeviationBelow(150)
    /\ DiffNotGreater(PropH2, PropW2, analysis_results.proportions.ideal_ratio, 150)
    /\ analysis_results.proportions.evaluation = "good"

\* C7 as stated: when the measured face width is zero the proportions
\* measurement carries the error marker, and the finished call has returned
\* a result whose proportions carry that marker and whose other
\* measurements carry none.  (Read on the analyses whose nose tip and cheeks
\* do not share one x: those that do are the case of C2 and C3.)
C7_ZeroWidthStillReturns ==
    (HasProportions /\ InFaceWidth2 = 0 /\ InS > 0) =>
        /\ "error" \in DOMAIN analysis_results.proportions
        /\ pc = "done" =>
             /\ outcome.kind = "result"
             /\ "error" \in DOMAIN outcome.value.proportions
             /\ \A name \in {"face_angle", "face_contour", "eline", "philtrum_chin",
                             "nasolabial_angle", "vline", "symmetry",
                             "dental_protrusion", "facial_harmony"} :
                    "error" \notin DOMAIN outcome.value[name]

\* The greatest common divisor of two naturals.
RECURSIVE Gcd(_, _)
Gcd(m, n) == IF n = 0 THEN m ELSE Gcd(n, m % n)

\* The direction of a non-zero vector: the vector over the gcd of its
\* components.
Direction(v) ==
    LET g == Gcd(Abs(v[1]), Abs(v[2]))
    IN  <<v[1] \div g, v[2] \div g>>

\* p lies on the line through a and b (a # b): p is a, or p - a has the
\* direction of b - a or the opposite one.
OnLine(p, a, b) ==
    \/ p = a
    \/ LET u == Direction(<<p[1] - a[1], p[2] - a[2]>>)
           v == Direction(<<b[1] - a[1], b[2] - a[2]>>)
       IN  u = v \/ u = <<-v[1], -v[2]>>

\* What the claim says of one call _point_to_line_distance(p, a, b) whose
\* returned distance is sqrt(dist.num / dist.den).
PointToLineAsClaimed(dist, p, a, b) ==
    /\ dist.den > 0
    /\ dist.num >= 0
    /\ a = b =>
         /\ dist.den = 1
         /\ dist.num = (p[1] - a[1]) * (p[1] - a[1]) + (p[2] - a[2]) * (p[2] - a[2])
    /\ a # b =>
         LET cross == (b[1] - a[1]) * (p[2] - a[2]) - (b[2] - a[2]) * (p[1] - a[1])
         IN  /\ dist.num = cross * cross
             /\ dist.den = (b[1] - a[1]) * (b[1] - a[1]) + (b[2] - a[2]) * (b[2] - a[2])
             /\ dist.num = 0 <=> OnLine(p, a, b)

\* C8: each of the two calls the E-line analysis makes returns, for a
\* zero-length line, the Euclidean distance from the point to the line's one
\* point without dividing, and otherwise |cross(b-a, p-a)| / |b-a| with a
\* non-zero divisor, a non-negative value that is zero exactly when the point
\* is on the line.
C8_PointToLineDistance ==
    HasEline =>
        LET e == analysis_results.eline
            a == landmark_set[1]
            b == landmark_set[152]
        IN  /\ PointToLineAsClaimed(e.upper_lip_distance, landmark_set[13], a, b)
            /\ PointToLineAsClaimed(e.lower_lip_distance, landmark_set[14], a, b)

\* C8 witness: the nose tip and the chin tip coincide, and the E-line
\* analysis has measured a non-zero upper-lip distance.
C8_Witness ==
    /\ HasEline
    /\ landmark_set[1] = landmark_set[152]
    /\ analysis_results.eline.upper_lip_distance.num > 0
    /\ analysis_results.eline.upper_lip_distance.den = 1

\* C9: the computed overall score and each of its detailed scores is in
\* [0, 100], and so is every score of a returned result.
C9_ScoresInRange ==
    /\ pc \in {"beauty_advice", "result", "done"} /\ outcome.kind # "AnalysisError"
         => /\ 0 <= overall_score.score /\ overall_score.score <= 100000
            /\ \A k \in DOMAIN overall_score.detailed_scores :
                 /\ 0 <= overall_score.detailed_scores[k]
                 /\ overall_score.detailed_scores[k] <= 100000
    /\ outcome.kind = "result"
         => LET o == outcome.value.overall_score
            IN  /\ 0 <= o.score /\ o.score <= 100000
                /\ \A k \in DOMAIN o.detailed_scores :
                     0 <= o.detailed_scores[k] /\ o.detailed_scores[k] <= 100000

\* C9 witness: a result has been returned, with four detailed scores.
C9_Witness ==
    /\ outcome.kind = "result"
    /\ Cardinality(DOMAIN outcome.value.overall_score.detailed_scores) = 4

\* The sum of the percentage weights a score_breakdown shows.
RECURSIVE WeightSum(_, _)
WeightSum(breakdown, names) ==
    IF names = {} THEN 0
    ELSE LET k == CHOOSE x \in names : TRUE
         IN  breakdown[k].weight + WeightSum(breakdown, names \ {k})

\* C10 as stated: the weights shown in the score_breakdown of a computed
\* overall score sum to exactly 100.
C10_WeightsSumTo100 ==
    pc \in {"beauty_advice", "result", "done"} /\ outcome.kind # "AnalysisError"
        => WeightSum(overall_score.score_breakdown,
                     DOMAIN overall_score.score_breakdown) = 100

\* A computed overall score that no error has replaced.
HasOverallScore ==
    pc \in {"beauty_advice", "result", "done"} /\ outcome.kind # "AnalysisError"

\* The sum over the weighted sub-analyses of weight * sub-score.
RECURSIVE WeightedSum(_, _, _)
WeightedSum(breakdown, scores, names) ==
    IF names = {} THEN 0
    ELSE LET k == CHOOSE x \in names : TRUE
         IN  breakdown[k].weight * scores[k] + WeightedSum(breakdown, scores, names \ {k})

\* C11 as stated: the overall score equals the weighted sum of the
\* sub-scores of detailed_scores under the weights of score_breakdown, the
\* weights read as percentages or, failing that, as shares of their sum.
C11_ScoreIsWeightedSum ==
    HasOverallScore =>
        LET b == overall_score.score_breakdown
            total == WeightedSum(b, overall_score.detailed_scores, DOMAIN b)
        IN  \/ 100 * overall_score.score = total
            \/ WeightSum(b, DOMAIN b) * overall_score.score = total

\* C13: the beauty_advice of every returned result has at least one element
\* and its last element is the "not medical advice" disclaimer.
C13_AdviceEndsWithDisclaimer ==
    outcome.kind = "result" =>
        LET advice == outcome.value.beauty_advice
        IN  /\ Len(advice) >= 1
            /\ advice[Len(advice)] =
                 "note: this advice is general beauty information, not medical advice"

\* C13 witness: a result has been returned whose advice has four elements.
C13_Witness ==
    /\ outcome.kind = "result"
    /\ Len(outcome.value.beauty_advice) = 4

\* The names under which a result holds its ten feature measurements.
MeasurementNames ==
    {"face_angle", "face_contour", "eline", "proportions", "philtrum_chin",
     "nasolabial_angle", "vline", "symmetry", "dental_protrusion", "facial_harmony"}

\* The fields FaceAnalysisResult requires of each measurement.
RequiredFields(name) ==
    CASE name = "face_angle" -> FaceAngleFields
      [] name = "face_contour" -> FaceContourFields
      [] name = "eline" -> ElineAnalysisFields
      [] name = "proportions" -> FaceProportionsFields
      [] name = "philtrum_chin" -> PhiltrumChinRatioFields
      [] name = "nasolabial_angle" -> NasolabialAngleFields
      [] name = "vline" -> VlineAnalysisFields
      [] name = "symmetry" -> SymmetryAnalysisFields
      [] name = "dental_protrusion" -> DentalProtrusionFields
      [] name = "facial_harmony" -> FacialHarmonyFields

\* C17 as stated: in every returned result each of the ten measurements has
\* all of its fields, and every key of detailed_scores is the name of one of
\* the ten measurements; and a finished call whose measurements are not all
\* complete has returned no result.
C17_CompleteAndKeyedByName ==
    /\ outcome.kind = "result" =>
         /\ \A name \in MeasurementNames :
               RequiredFields(name) \subseteq DOMAIN outcome.value[name]
         /\ DOMAIN outcome.value.overall_score.detailed_scores \subseteq MeasurementNames
    /\ (pc = "done" /\ \E name \in MeasurementNames :
                          \/ name \notin DOMAIN analysis_results
                          \/ ~(RequiredFields(name) \subseteq DOMAIN analysis_results[name]))
         => outcome.kind = "AnalysisError"

\* The indices of the named landmark table and of the jawline list.
TableIndices ==
    {landmarks[name] : name \in DOMAIN landmarks}
        \cup {jawline_landmarks[k] : k \in DOMAIN jawline_landmarks}

\* The largest index of the named landmark table.
LargestTableIndex ==
    CHOOSE i \in {landmarks[name] : name \in DOMAIN landmarks} :
        \A name \in DOMAIN landmarks : landmarks[name] <= i

\* C15 as stated: a finished analysis of a landmark list whose length is
\* not greater than the largest index of the named landmark table has raised
\* the analysis error and returned no result.
C15_ShortLandmarkSetRaises ==
    (pc = "done" /\ total_landmarks <= LargestTableIndex) =>
        /\ outcome.kind = "AnalysisError"
        /\ outcome.value = EmptyRecord

\* The invocations that have finished.
Finished == {i \in DOMAIN calls : calls[i].pc = "done"}

\* An outcome outside its timestamp.
WithoutTimestamp(o) ==
    IF o.kind = "result"
    THEN [kind |-> o.kind, stage |-> o.stage,
          value |-> [f \in DOMAIN o.value \ {"timestamp"} |-> o.value[f]]]
    ELSE o

AnalyzerIndices ==
    {analyzer.landmarks[name] : name \in DOMAIN analyzer.landmarks}
        \cup {analyzer.jawline_landmarks[k] : k \in DOMAIN analyzer.jawline_landmarks}

C18_ErrorNamesFailedStage ==
    \A i \in Finished :
        calls[i].outcome.kind = "AnalysisError" =>
            /\ calls[i].outcome.stage = calls[i].pending.stage
            /\ calls[i].outcome.stage \in
                 {"image_loading", "face_detection", "comprehensive_analysis"}

\* What one invocation gives its caller when no other runs, its result
\* stamped now.
AloneOutcome(image, now) ==
    IF image.kind # "face" THEN AnalysisError("image_processing")
    ELSE LET results == comprehensive_results(image.landmark_set, image.shape)
             score == calculate_overall_score(results)
         IN  IF FaceAnalysisResultAccepts(results, score)
             THEN Returned(FaceAnalysisResult(
                      now, image.shape, refined_mesh_landmark_count, results, score,
                      generate_beauty_advice(results),
                      get_angle_warning(results.face_angle)))
             ELSE AnalysisError("image_processing")

\* The timestamp of a returned result.
Stamp(o) == IF o.kind = "result" THEN o.value.timestamp ELSE 0

\* C19: under every interleaving of the invocations the tables of the shared
\* analyzer instance stay as __init__ set them, and each finished invocation
\* has given its caller what it gives when run alone on its image.
C19_InvocationsDoNotInterfere ==
    /\ analyzer = AnalyzerInstance
    /\ \A i \in Finished :
          calls[i].outcome = AloneOutcome(calls[i].image, Stamp(calls[i].outcome))

\* C19 witness: an invocation has returned a result while another, on a
\* different face, has computed its sub-analyses and not yet assembled its
\* result.
C19_Witness ==
    \E i \in Finished, j \in DOMAIN calls :
        /\ calls[i].outcome.kind = "result"
        /\ calls[j].pc = "result"
        /\ calls[j].image.kind = "face"
        /\ calls[j].image # calls[i].image

\* The score the claimed table gives a dict that has a score or an
\* evaluation.
TableScore(d) ==
    IF "score" \in DOMAIN d THEN d.score
    ELSE IF Contains(<<29702, 24819>>, d.evaluation)
              \/ Contains(<<20778, 31168>>, d.evaluation) THEN 90000
    ELSE IF Contains(<<33391, 22909>>, d.evaluation) THEN 80000
    ELSE IF Contains(<<27161, 28310>>, d.evaluation) THEN 70000
    ELSE 60000

\* C20 as stated: for a dict with a score field the LINE bot's
\* _extract_score returns the score; otherwise for an evaluation containing
\* ideal or excellent 90, else for one containing good 80, else for one
\* containing standard 70, else 60; and the report generator's copy returns
\* the same for every dict.
C20_LabelTableAndCopiesAgree ==
    (extracted.linebot # <<>> /\ extracted.report # <<>>) =>
        /\ DOMAIN data # {} => extracted.linebot[1] = TableScore(data)
        /\ extracted.report = extracted.linebot

\* C30 as stated: for every landmark set, the record returned by
\* _detect_face_angle has the four fields FaceAngle requires (angle, ratio,
\* confidence, suitable_for_analysis) with ratio and confidence in [0, 1],
\* so the assembly of the result never fails on the face-angle measurement.
C30_AngleRecordHasRequiredFields ==
    HasAngle =>
        LET fa == analysis_results.face_angle
        IN  /\ {"angle", "ratio", "confidence", "suitable_for_analysis"}
                 \subseteq DOMAIN fa
            /\ fa.ratio \in 0..1000
            /\ fa.confidence \in 0..100
            /\ pc = "done" /\ outcome.kind = "error" =>
                 FaceAngle(fa)

\* The returns of one accessor, in order.
ReturnsOf(accessor) == SelectSeq(returns, LAMBDA r : r.accessor = accessor)

\* C23: every call of get_linebot_service after the first returns the very
\* same instance as the first, whatever client it is given, and that
\* instance is bound to the client of the first call; the same holds for
\* get_analysis_service and get_facial_analyzer.
C23_AccessorsAreSingletons ==
    \A accessor \in {"get_linebot_service", "get_analysis_service",
                     "get_facial_analyzer"} :
        LET rs == ReturnsOf(accessor)
        IN  \A k \in 1..Len(rs) :
                /\ ~rs[k].instance.is_none
                /\ rs[k].instance = rs[1].instance
                /\ rs[k].instance.supabase = rs[1].client

\* get_linebot_service was called with one client and later with another,
\* and get_analysis_service with yet a different one from its first call.
C23_Witness ==
    /\ \E i, j \in 1..Len(ReturnsOf("get_linebot_service")) :
          /\ i < j
          /\ ReturnsOf("get_linebot_service")[i].client
               # ReturnsOf("get_linebot_service")[j].client
    /\ \E i, j \in 1..Len(ReturnsOf("get_analysis_service")) :
          /\ i < j
          /\ ReturnsOf("get_analysis_service")[i].client
               # ReturnsOf("get_analysis_service")[j].client

\* C21 as stated: when the LINE bot is configured and the request has no
\* X-Line-Signature header, the webhook answers HTTP 400 with the detail
\* "Missing X-Line-Signature header", and no event was handled.
C21_MissingSignatureIs400 ==
    (webhook.pc = "done" /\ webhook.configured /\ webhook.signature = "") =>
        /\ webhook.response.status_code = 400
        /\ webhook.response.detail = "Missing X-Line-Signature header"
        /\ handled = <<>>

\* C29: _handle_events handles the events of a batch in their given order,
\* and an exception raised while handling one event neither stops the
\* handling of the events after it nor makes handle_webhook fail: once the
\* batch was parsed, the request ends with every event handled and with the
\* success answer.
C29_EveryEventHandledInOrder ==
    /\ handled = [k \in 1..Len(handled) |-> k]
    /\ Len(handled) <= Len(webhook.events)
    /\ webhook.pc = "events" => Len(handled) = webhook.position - 1
    /\ (webhook.pc = "done" /\ webhook.configured /\ webhook.signature = "valid"
          /\ webhook.body = "json") =>
           /\ Len(handled) = Len(webhook.events)
           /\ webhook.response = EventsProcessed

\* A batch whose first event let an exception out was handled to its end.
C29_Witness ==
    /\ webhook.pc = "done"
    /\ Len(webhook.events) = 2
    /\ handler_raises(webhook.events[1])
    /\ handled = <<1, 2>>
    /\ webhook.response = EventsProcessed

\* C22 as stated: when the uploaded file is a valid image in which no face
\* is detected, the endpoint answers HTTP 422 with a detail that contains
\* "No face detected".
C22_NoFaceIs422 ==
    (/\ request.pc = "done"
     /\ request.file.has_filename
     /\ request.file.content_type = "image/png"
     /\ ~request.file.too_large
     /\ request.file.image = "no_face"
     /\ request.first_error # <<>>
     /\ request.first_error[1].stage = "image_processing") =>
        /\ request.response.status_code = 422
        /\ \E k \in 1..Len(request.response.detail) :
              request.response.detail[k] = "No face detected in image"

\* The steps analyze_face_image of the service has run, without the
\* storing of the failure record.
WorkSteps ==
    SelectSeq(request.steps,
              LAMBDA step : step \in {"upload", "analysis", "store_result"})

\* The call of the service has raised.
ServiceRaised ==
    /\ request.pc \in {"endpoint_except", "done"}
    /\ request.first_error # <<>>

\* C24: analyze_face_image runs upload, analysis and result storage in that
\* order; when one of them fails it tries to insert a failure record for
\* the same analysis id and then raises AnalysisError with the stage
\* "analysis_service" that wraps the original error, whether or not the
\* failure record could be stored.
C24_FailureRecordedThenWrapped ==
    /\ WorkSteps = SubSeq(<<"upload", "analysis", "store_result">>, 1, Len(WorkSteps))
    /\ ServiceRaised =>
         LET e == request.raised[1]
             last == insert_attempts[Len(insert_attempts)]
         IN  /\ request.steps = Append(WorkSteps, "store_failure")
             /\ Len(insert_attempts) > 0
             /\ last.row = [id |-> request.analysis_id, analysis_type |-> "failed"]
             /\ e.class = "AnalysisError"
             /\ e.stage = "analysis_service"
             /\ e.cause = request.first_error
             /\ e.message = <<"Face analysis failed">> \o request.first_error[1].message

\* The analysis failed and the failure record could not be stored either.
C24_Witness ==
    /\ ServiceRaised
    /\ request.steps = <<"upload", "analysis", "store_failure">>
    /\ ~insert_attempts[Len(insert_attempts)].accepted
    /\ request.raised[1].cause = request.first_error

\* C25: one call of analyze_face_image inserts at most one row with its
\* analysis id into analysis_results: the completed-result row or the
\* failure row, never both.
C25_OneRowPerAnalysis ==
    \A i, j \in 1..Len(analysis_results_table) :
        analysis_results_table[i].id = analysis_results_table[j].id => i = j

\* The result row was inserted, a later statement of the call failed, and
\* the insert of the failure row with the same id was tried and refused.
C25_Witness ==
    \E i, j \in 1..Len(insert_attempts) :
        /\ i < j
        /\ insert_attempts[i].row.id = insert_attempts[j].row.id
        /\ insert_attempts[i].row.analysis_type = "full"
        /\ insert_attempts[i].accepted
        /\ insert_attempts[j].row.analysis_type = "failed"
        /\ ~insert_attempts[j].accepted

\* The rows the current call of send_message has stored.
StoredByCall == SubSeq(chat_messages, chat.entry + 1, Len(chat_messages))

\* The place of an event in the log of the current call of send_message,
\* 0 when it has not happened.
EventAt(event) ==
    IF \E k \in 1..Len(chat.events) : chat.events[k] = event
    THEN CHOOSE k \in 1..Len(chat.events) : chat.events[k] = event
    ELSE 0

\* C26: send_message first checks that the session exists and belongs to
\* the user and stores nothing when that check fails; otherwise it stores
\* the user message before it requests the AI response and the assistant
\* message only after the response was generated, so a failed AI call
\* leaves the user message stored with no assistant reply, and the call
\* raises ChatbotError.
C26_SessionCheckedThenStoredInOrder ==
    Len(chat.events) > 0 =>
        /\ chat.events[1] \in {"session_found", "session_not_found"}
        /\ chat.events[1] = "session_not_found" =>
              /\ StoredByCall = <<>>
              /\ EventAt("ai_request") = 0
              /\ chat.result # "ChatResponse"
              /\ chat.pc \in {"except", "create_except", "handler_except", "done"}
        /\ EventAt("ai_request") # 0 =>
              /\ 0 < EventAt("store_user")
              /\ EventAt("store_user") < EventAt("ai_request")
              /\ StoredByCall[1].role = "user"
        /\ EventAt("store_assistant") # 0 =>
              /\ 0 < EventAt("ai_response")
              /\ EventAt("ai_response") < EventAt("store_assistant")
        /\ (EventAt("ai_request") # 0 /\ EventAt("ai_response") = 0
              /\ chat.pc # "except") =>
              /\ chat.result = "ChatbotError"
              /\ Len(StoredByCall) = 1
              /\ StoredByCall[1].role = "user"

\* The AI call of a send_message failed: the call has raised ChatbotError
\* and its user message is the one row it stored.
C26_Witness ==
    /\ chat.op = "send_message"
    /\ chat.pc = "done"
    /\ EventAt("ai_request") # 0
    /\ EventAt("ai_response") = 0
    /\ chat.result = "ChatbotError"
    /\ Len(chat_messages) = chat.entry + 1

\* C27 as stated: the conversation history send_message hands to the
\* language model is the most recent messages of the session, at most the
\* last 10 of them, in chronological order, for a session of any length
\* (read on the calls whose history query succeeded).
C27_HistoryIsMostRecent ==
    \A k \in 1..Len(ai_requests) :
        ai_requests[k].fetched =>
            ai_requests[k].history = LastOf(ai_requests[k].session_before, 10)

\* The rows of a role the handling of the LINE message has stored.
StoredForLineMessage(role) ==
    SelectSeq(chat_messages,
              LAMBDA row : row.session_id = created_session /\ row.role = role)

\* C28 as stated: handling one free-text LINE message that is not a command
\* stores exactly one user message and one assistant message for it and
\* requests exactly one AI response (read on the handlings that found the
\* LINE user and reached the database).
C28_OneExchangePerLineMessage ==
    (/\ chat.op = "handle_chat_message"
     /\ chat.pc = "done"
     /\ chat.initial_message
     /\ chat.session_insert \in {"accepted", "refused"}) =>
        /\ Len(StoredForLineMessage("user")) = 1
        /\ Len(StoredForLineMessage("assistant")) = 1
        /\ Len(ai_requests) = 1

=============================================================================
